---- MODULE Spec2Model ----
(***************************************************************************)
(* Resource clustering of powergenome/renewables_clusters.py:              *)
(* merge_row_pair, cluster_rows, build_row_tree, cluster_row_trees,        *)
(* ResourceGroup.get_clusters / get_cluster_profiles and ClusterBuilder,   *)
(* as one state machine.                                                   *)
(*                                                                         *)
(* A table (pandas DataFrame) is a record                                  *)
(*   [columns : sequence of column names,                                  *)
(*    index   : sequence of row labels,                                    *)
(*    rows    : sequence of rows]                                          *)
(* and a row is a function from column names to values; a column missing   *)
(* from a row's domain is a NaN cell.  Floats are exact rationals <<n, d>>  *)
(* (rounding is not modelled).  Positions are 1-based where Python's are   *)
(* 0-based, so the row created by merge i (i = 1, 2, ...) sits at nrows+i. *)
(***************************************************************************)
EXTENDS Integers, Sequences, FiniteSets, TLC

VARIABLES pc, call, gc, cr, ct, ret, self, bc, bt

vars == <<pc, call, gc, cr, ct, ret, self, bc, bt>>

\* The state outside a clustering call: the ClusterBuilder (self), the
\* build_clusters call in progress (bc) and the build_row_tree call (bt).
outer == <<self, bc, bt>>

\* ------------------------------------------------------------------ bounds
\* Largest number of rows of a table handed directly to cluster_rows.
MaxRows == 3

\* The number of build_clusters calls made on a ClusterBuilder.
MaxBuilds == 2

\* The number of read and clear calls made on a Table.
MaxCalls == 3

\* The number of threads reading one Table at the same time.
MaxThreads == 2

\* ------------------------------------------------------- Python constants
\* Python's None for an optional numeric argument.
None == -1
\* numpy's nan, as a parent_id or an index label.
NaN == -2
\* The null marker merge_row_pair writes for a non-unique value.
Null == "null"

CAPACITY == "mw"
WEIGHT == CAPACITY
MEANS ==
    <<"lcoe", "interconnect_annuity", "offshore_spur_miles", "spur_miles", "tx_miles",
      "site_substation_spur_miles", "substation_metro_tx_miles", "site_metro_spur_miles">>
UNIQUES == <<"ipm_region", "metro_id">>
SUMS == <<"area", CAPACITY>>

\* ----------------------------------------------------------------- helpers
Range(s) == {s[i] : i \in 1..Len(s)}

Truthy(x) == x # None /\ x # 0

Abs(x) == IF x < 0 THEN -x ELSE x

Min(a, b) == IF a < b THEN a ELSE b

RECURSIVE GCD(_, _)
GCD(a, b) == IF b = 0 THEN a ELSE GCD(b, a % b)

LCM(a, b) == (a * b) \div GCD(a, b)

\* A rational in lowest terms with a positive denominator.
Rat(n, d) ==
    LET g == GCD(Abs(n), Abs(d))
        s == IF d < 0 THEN -1 ELSE 1
    IN  IF g = 0 THEN <<0, 1>> ELSE <<(s * n) \div g, (s * d) \div g>>

RatLess(p, q) == p[1] * q[2] < q[1] * p[2]

RatLeq(p, q) == p[1] * q[2] <= q[1] * p[2]

RatAbsDiff(p, q) == Rat(Abs(p[1] * q[2] - q[1] * p[2]), p[2] * q[2])

RECURSIVE SumSeq(_)
SumSeq(s) == IF s = <<>> THEN 0 ELSE s[1] + SumSeq(Tail(s))

RECURSIVE Flatten(_)
Flatten(ss) == IF ss = <<>> THEN <<>> ELSE ss[1] \o Flatten(Tail(ss))

\* Sub-sequence of s at the positions where m is TRUE.
RECURSIVE Masked(_, _)
Masked(s, m) ==
    IF s = <<>> THEN <<>>
    ELSE (IF m[1] THEN <<s[1]>> ELSE <<>>) \o Masked(Tail(s), Tail(m))

\* The value of column key of row r as a distance observation.
Obs(r, key) == IF key = CAPACITY THEN <<r[key], 1>> ELSE r[key]

\* ------------------------------------------------------------------ _tuple
\* A row label is a scalar [t |-> "scalar", v |-> x] or an iterable
\* [t |-> "tuple", v |-> <<...>>]; _tuple returns the tuple itself.
Mut_tupleAlwaysWrap(x) == <<x.v>>

_tuple(x) == IF x.t = "tuple" THEN x.v ELSE <<x.v>>

Scalar(x) == [t |-> "scalar", v |-> x]

TupleLabel(s) == [t |-> "tuple", v |-> s]

\* ---------------------------------------------------------- merge_row_pair
\* Merge rules (**kwargs of merge_row_pair): None and [] are both falsy, so
\* an absent list is the empty sequence; weight is a column name or "".
Rules(sums, means, weight, uniques) ==
    [sums |-> sums, means |-> means, weight |-> weight, uniques |-> uniques]

RuleKeys(kw) == Range(kw.sums) \cup Range(kw.means) \cup Range(kw.uniques)

\* Keys both rows must carry for merge_row_pair not to raise.
NeededKeys(kw) ==
    RuleKeys(kw) \cup (IF kw.means # <<>> /\ kw.weight # "" THEN {kw.weight} ELSE {})

MutSumLeft(a, b, key) == a[key]

MergeSum(a, b, key) == a[key] + b[key]

MutMeanLeftWeight(a, b, key, weight) ==
    IF weight # ""
    THEN LET total == a[weight] + b[weight]
         IN  Rat(a[key][1] * a[weight] * b[key][2] + b[key][1] * a[weight] * a[key][2],
                 a[key][2] * b[key][2] * total)
    ELSE Rat(a[key][1] * b[key][2] + b[key][1] * a[key][2], 2 * a[key][2] * b[key][2])

MutMeanUnweighted(a, b, key, weight) ==
    Rat(a[key][1] * b[key][2] + b[key][1] * a[key][2], 2 * a[key][2] * b[key][2])

MergeMean(a, b, key, weight) ==
    IF weight # ""
    THEN LET total == a[weight] + b[weight]
         IN  Rat(a[key][1] * a[weight] * b[key][2] + b[key][1] * b[weight] * a[key][2],
                 a[key][2] * b[key][2] * total)
    ELSE Rat(a[key][1] * b[key][2] + b[key][1] * a[key][2], 2 * a[key][2] * b[key][2])

MutUniqueLeft(a, b, key) == a[key]

MergeUnique(a, b, key) == IF a[key] = b[key] THEN a[key] ELSE Null

merge_row_pair(a, b, kw) ==
    [key \in RuleKeys(kw) |->
        IF key \in Range(kw.uniques) THEN MergeUnique(a, b, key)
        ELSE IF key \in Range(kw.means) THEN MergeMean(a, b, key, kw.weight)
        ELSE MergeSum(a, b, key)]

\* ------------------------------------------------------------ Ward linkage
\* scipy.cluster.hierarchy.ward on one-column observations: repeatedly join
\* the two clusters at the smallest Ward distance,
\*   d^2(u, v) = 2 |u| |v| / (|u| + |v|) * (mean u - mean v)^2,
\* the smaller label first; observations are labelled 1..N and the cluster
\* formed by join k is labelled N + k.  Ties are broken by the library: every
\* admissible order is allowed.  WardPrefix is the set of possible Z[:k].
RECURSIVE LCMSeq(_)
LCMSeq(obs) == IF obs = <<>> THEN 1 ELSE LCM(obs[1][2], LCMSeq(Tail(obs)))

WardNum(sz, sm, p) == (sm[p[1]] * sz[p[2]] - sm[p[2]] * sz[p[1]]) * (sm[p[1]] * sz[p[2]] - sm[p[2]] * sz[p[1]])

WardDen(sz, sm, p) == sz[p[1]] * sz[p[2]] * (sz[p[1]] + sz[p[2]])

WardLeq(sz, sm, p, q) == WardNum(sz, sm, p) * WardDen(sz, sm, q) <= WardNum(sz, sm, q) * WardDen(sz, sm, p)

RECURSIVE WardFrom(_, _, _, _, _)
WardFrom(active, sz, sm, next, k) ==
    IF k = 0 \/ Cardinality(active) < 2 THEN {<<>>}
    ELSE LET pairs == {p \in active \X active : p[1] < p[2]}
             best == {p \in pairs : \A q \in pairs : WardLeq(sz, sm, p, q)}
         IN  UNION {
               { <<p>> \o z :
                   z \in WardFrom((active \ {p[1], p[2]}) \cup {next},
                                  (next :> (sz[p[1]] + sz[p[2]])) @@ sz,
                                  (next :> (sm[p[1]] + sm[p[2]])) @@ sm,
                                  next + 1, k - 1) }
               : p \in best }

WardPrefix(by, k) ==
    LET N == Len(by)
        L == LCMSeq(by)
    IN  WardFrom(1..N, [i \in 1..N |-> 1],
                 [i \in 1..N |-> by[i][1] * (L \div by[i][2])], N + 1, k)

\* ------------------------------------------------------------------ frames
NoneRow == [none |-> TRUE]

IsNone(r) == "none" \in DOMAIN r

EmptyTable == [columns |-> <<>>, index |-> <<>>, rows |-> <<>>]

NoRules == Rules(<<>>, <<>>, "", <<>>)

\* Frame of cluster_rows: its arguments (df, by, max_rows, kwargs), who
\* called it, and its locals.
NoCr ==
    [df |-> EmptyTable, by |-> <<>>, max_rows |-> None, kwargs |-> NoRules,
     caller |-> "", nrows |-> 0, drows |-> 0, index |-> <<>>, rows |-> <<>>,
     Z |-> <<>>, mask |-> <<>>, i |-> 0]

CrCall(df, by, max_rows, kwargs, caller) ==
    [NoCr EXCEPT !.df = df, !.by = by, !.max_rows = max_rows,
                 !.kwargs = kwargs, !.caller = caller]

NoGc == [kind |-> "none"]

NoCt == [kind |-> "none"]

NoRet == [kind |-> "none"]

NoSelf == [kind |-> "none"]

NoBc == [kind |-> "none"]

NoBt == [kind |-> "none"]

Error(exc, msg) == [kind |-> "error", exc |-> exc, msg |-> msg]

Returned(t) == [kind |-> "table", columns |-> t.columns, index |-> t.index, rows |-> t.rows]

\* ------------------------------------------------------------ cluster_rows
MutDrowsOneLess(nrows, max_rows) == nrows - max_rows - 1

MutDrowsOneMore(nrows, max_rows) == nrows - max_rows + 1

Drows(nrows, max_rows) == nrows - max_rows

MutIndexReversed(index, link) == index[link[2]] \o index[link[1]]

MergedIndex(index, link) == index[link[1]] \o index[link[2]]

\* Columns of pd.DataFrame(list of dicts): every key of any row.
FrameKeys(rows) == UNION {DOMAIN rows[i] : i \in 1..Len(rows)}

\* Where control goes when cluster_rows returns or raises.
CrReturnPc(caller) == IF caller = "cluster_row_trees" THEN "tree_return" ELSE "done"

\* cluster_rows up to the linkage: argument checks, the no-merge return,
\* and Z = ward(by) cut to its first drows rows.
cluster_rows_begin ==
    /\ pc = "cluster_rows"
    /\ LET df == cr.df
           nrows == Len(df.rows)
           max_rows == IF cr.max_rows = None THEN nrows ELSE cr.max_rows
           drows == Drows(nrows, max_rows)
           index == [k \in 1..(nrows + (IF drows > 0 THEN drows ELSE 0)) |->
                        IF k <= nrows THEN _tuple(df.index[k]) ELSE <<>>]
       IN  IF cr.max_rows # None /\ cr.max_rows < 1
           THEN /\ ret' = Error("ValueError", "Max number of rows must be greater than zero")
                /\ pc' = "error"
                /\ UNCHANGED cr
           ELSE IF drows < 1
           THEN /\ ret' = Returned([columns |-> df.columns, index |-> index, rows |-> df.rows])
                /\ pc' = CrReturnPc(cr.caller)
                /\ cr' = [cr EXCEPT !.nrows = nrows, !.drows = drows, !.index = index]
           ELSE \E Z \in WardPrefix(cr.by, drows) :
                /\ cr' = [cr EXCEPT !.nrows = nrows, !.drows = drows, !.index = index,
                                    !.rows = df.rows \o [k \in 1..drows |-> NoneRow],
                                    !.Z = Z,
                                    !.mask = [k \in 1..(nrows + drows) |-> TRUE],
                                    !.i = 0]
                /\ pc' = "cluster_rows_loop"
                /\ UNCHANGED ret
    /\ UNCHANGED <<call, gc, ct>>
    /\ UNCHANGED outer

\* One iteration of the merge loop (lines 964-968).
cluster_rows_merge ==
    /\ pc = "cluster_rows_loop"
    /\ cr.i < Len(cr.Z)
    /\ LET link == cr.Z[cr.i + 1]
           n == cr.nrows + cr.drows
           pid == cr.nrows + cr.i + 1
       IN  IF link[1] > n \/ link[2] > n
           THEN /\ ret' = Error("IndexError", "index out of bounds")
                /\ pc' = "error"
                /\ UNCHANGED cr
           ELSE IF IsNone(cr.rows[link[1]]) \/ IsNone(cr.rows[link[2]])
           THEN /\ ret' = Error("TypeError", "NoneType object is not subscriptable")
                /\ pc' = "error"
                /\ cr' = [cr EXCEPT !.mask = [k \in 1..n |-> IF k \in {link[1], link[2]} THEN FALSE ELSE cr.mask[k]]]
           ELSE IF ~(NeededKeys(cr.kwargs) \subseteq (DOMAIN cr.rows[link[1]] \cap DOMAIN cr.rows[link[2]]))
           THEN /\ ret' = Error("KeyError", "missing key")
                /\ pc' = "error"
                /\ cr' = [cr EXCEPT !.mask = [k \in 1..n |-> IF k \in {link[1], link[2]} THEN FALSE ELSE cr.mask[k]]]
           ELSE /\ cr' = [cr EXCEPT
                            !.mask = [k \in 1..n |-> IF k \in {link[1], link[2]} THEN FALSE ELSE cr.mask[k]],
                            !.rows[pid] = merge_row_pair(cr.rows[link[1]], cr.rows[link[2]], cr.kwargs),
                            !.index[pid] = MergedIndex(cr.index, link),
                            !.i = cr.i + 1]
                /\ UNCHANGED <<pc, ret>>
    /\ UNCHANGED <<call, gc, ct>>
    /\ UNCHANGED outer

\* After the loop (lines 969-973): keep the live rows, in the input's
\* column order restricted to the columns some live row carries.
cluster_rows_end ==
    /\ pc = "cluster_rows_loop"
    /\ cr.i = Len(cr.Z)
    /\ LET live == Masked(cr.rows, cr.mask)
           keys == FrameKeys(live)
                   \cup (IF \E k \in 1..cr.nrows : cr.mask[k] THEN Range(cr.df.columns) ELSE {})
           InClusters(x) == x \in keys
       IN  ret' = Returned([columns |-> SelectSeq(cr.df.columns, InClusters),
                            index |-> Masked(cr.index, cr.mask),
                            rows |-> live])
    /\ pc' = CrReturnPc(cr.caller)
    /\ UNCHANGED <<call, gc, cr, ct>>
    /\ UNCHANGED outer

\* ------------------------------------------------------- cluster_row_trees
\* Frame of cluster_row_trees: its arguments (df, by, tree, max_rows,
\* kwargs; tree is a column name or ""), and its locals.  df.index holds
\* plain labels; after line 1176 every row also carries _id, _ids and _mask.
CtCall(df, by, tree, max_rows, kwargs) ==
    [kind |-> "frame", df |-> df, by |-> by, tree |-> tree, max_rows |-> max_rows,
     kwargs |-> kwargs, nrows |-> 0, drows |-> 0, columns |-> <<>>]

\* Positions of the rows labelled label.
PosOf(index, label) == {k \in 1..Len(index) : index[k] = label}

Loc(index, label) == CHOOSE k \in PosOf(index, label) : TRUE

MaxOf(S) == CHOOSE x \in S : \A y \in S : y <= x

MinOf(S) == CHOOSE x \in S : \A y \in S : x <= y

RECURSIVE AscSeq(_)
AscSeq(S) == IF S = {} THEN <<>> ELSE <<MinOf(S)>> \o AscSeq(S \ {MinOf(S)})

MutBaseMaskGlobal(df, tree) ==
    [k \in 1..Len(df.rows) |->
        df.rows[k].level = MaxOf({df.rows[j].level : j \in 1..Len(df.rows)})]

\* Lines 1155-1158: the rows at the largest level of their tree.
BaseMask(df, tree) ==
    [k \in 1..Len(df.rows) |->
        df.rows[k].level =
            MaxOf({df.rows[j].level :
                     j \in {j \in 1..Len(df.rows) :
                              tree = "" \/ df.rows[j][tree] = df.rows[k][tree]}})]

\* Line 1164: sums + means + uniques.
MergeColumns(kw) == kw.sums \o kw.means \o kw.uniques

\* df[columns] / df.loc[mask, columns] of a table.
Project(t, columns) ==
    [columns |-> columns, index |-> t.index,
     rows |-> [k \in 1..Len(t.rows) |->
                  [c \in Range(columns) \cap DOMAIN t.rows[k] |-> t.rows[k][c]]]]

MaskTable(t, mask) ==
    [columns |-> t.columns, index |-> Masked(t.index, mask), rows |-> Masked(t.rows, mask)]

MutChildrenLiveOrNot(df) ==
    {k \in 1..Len(df.rows) : df.rows[k].parent_id # NaN}

\* The live rows that have a parent (groupby drops nan keys), by position.
LiveChildren(df) ==
    {k \in 1..Len(df.rows) : df.rows[k]._mask /\ df.rows[k].parent_id # NaN}

ParentIds(df) == {df.rows[k].parent_id : k \in LiveChildren(df)}

ChildrenOf(df, p) == {k \in LiveChildren(df) : df.rows[k].parent_id = p}

\* distance = abs(max - min) of the by column over a parent's live children.
Distance(df, by, p) ==
    LET obs == {Obs(df.rows[k], by) : k \in ChildrenOf(df, p)}
        hi == CHOOSE x \in obs : \A y \in obs : RatLeq(y, x)
        lo == CHOOSE x \in obs : \A y \in obs : RatLeq(x, y)
    IN  RatAbsDiff(hi, lo)

\* Order of the parents table (lines 1181-1186): groups in order of first
\* appearance, then a stable sort by n descending, distance ascending.
MutBeforeLargestDistance(df, by, p, q) ==
    LET np == Cardinality(ChildrenOf(df, p))
        nq == Cardinality(ChildrenOf(df, q))
        dp == Distance(df, by, p)
        dq == Distance(df, by, q)
    IN  \/ np > nq
        \/ np = nq /\ RatLess(dq, dp)
        \/ np = nq /\ dp = dq /\ MinOf(ChildrenOf(df, p)) < MinOf(ChildrenOf(df, q))

Before(df, by, p, q) ==
    LET np == Cardinality(ChildrenOf(df, p))
        nq == Cardinality(ChildrenOf(df, q))
        dp == Distance(df, by, p)
        dq == Distance(df, by, q)
    IN  \/ np > nq
        \/ np = nq /\ RatLess(dp, dq)
        \/ np = nq /\ dp = dq /\ MinOf(ChildrenOf(df, p)) < MinOf(ChildrenOf(df, q))

\* parents.index[0]
TopParent(df, by) ==
    CHOOSE p \in ParentIds(df) : \A q \in ParentIds(df) \ {p} : Before(df, by, p, q)

\* Line 1212: the parent with the largest level, the first of them in the
\* order of the parents table.
MutShallowestParent(df, by) ==
    CHOOSE p \in ParentIds(df) : \A q \in ParentIds(df) \ {p} :
        LET lp == df.rows[Loc(df.index, p)].level
            lq == df.rows[Loc(df.index, q)].level
        IN  lp < lq \/ (lp = lq /\ Before(df, by, p, q))

DeepestParent(df, by) ==
    CHOOSE p \in ParentIds(df) : \A q \in ParentIds(df) \ {p} :
        LET lp == df.rows[Loc(df.index, p)].level
            lq == df.rows[Loc(df.index, q)].level
        IN  lp > lq \/ (lp = lq /\ Before(df, by, p, q))

MutRequiredWithoutParent(by, tree) ==
    <<"level", by>> \o (IF tree # "" THEN <<tree>> ELSE <<>>)

\* Lines 1149-1151.
TreeRequired(by, tree) == <<"parent_id", "level", by>> \o (IF tree # "" THEN <<tree>> ELSE <<>>)

\* cluster_row_trees up to the loop (lines 1149-1177).
cluster_row_trees_begin ==
    /\ pc = "cluster_row_trees"
    /\ LET df == ct.df
           InDf(key) == key \in Range(df.columns)
           missing == {key \in Range(TreeRequired(ct.by, ct.tree)) : ~InDf(key)}
           mask == BaseMask(df, ct.tree)
           nrows == Cardinality({k \in 1..Len(mask) : mask[k]})
           max_rows == IF ct.max_rows = None THEN nrows ELSE ct.max_rows
           columns == MergeColumns(ct.kwargs)
           drows == Drows(nrows, max_rows)
       IN  IF missing # {}
           THEN /\ ret' = Error("ValueError", "Missing required fields")
                /\ pc' = "error"
                /\ UNCHANGED ct
           ELSE IF ct.max_rows # None /\ ct.max_rows < 1
           THEN /\ ret' = Error("ValueError", "Max number of rows must be greater than zero")
                /\ pc' = "error"
                /\ UNCHANGED ct
           ELSE IF ct.by \notin Range(columns)
           THEN /\ ret' = Error("ValueError", "by not included in row merge arguments")
                /\ pc' = "error"
                /\ UNCHANGED ct
           ELSE IF drows < 1
           THEN /\ IF Range(columns) \subseteq Range(df.columns)
                   THEN /\ ret' = Returned(
                                    LET t == Project(MaskTable(df, mask), columns)
                                    IN  [t EXCEPT !.index = [k \in 1..Len(t.index) |-> _tuple(Scalar(t.index[k]))]])
                        /\ pc' = "done"
                   ELSE /\ ret' = Error("KeyError", "columns not in index")
                        /\ pc' = "error"
                /\ ct' = [ct EXCEPT !.nrows = nrows, !.drows = drows, !.columns = columns,
                                    !.max_rows = max_rows]
           ELSE /\ ct' = [ct EXCEPT
                            !.nrows = nrows, !.drows = drows, !.columns = columns,
                            !.max_rows = max_rows,
                            !.df.rows = [k \in 1..Len(df.rows) |->
                                [_id |-> df.index[k],
                                 _ids |-> _tuple(Scalar(df.index[k])),
                                 _mask |-> mask[k]] @@ df.rows[k]]]
                /\ pc' = "tree_loop"
                /\ UNCHANGED ret
    /\ UNCHANGED <<call, gc, cr>>
    /\ UNCHANGED outer

\* Lines 1189-1209: the first parent has both children live; they are merged
\* into the parent's row and retired.
tree_merge ==
    /\ pc = "tree_loop"
    /\ ct.drows > 0
    /\ ParentIds(ct.df) # {}
    /\ \E df \in {ct.df} :
       \E pid \in {TopParent(df, ct.by)} :
       \E kids \in {AscSeq(ChildrenOf(df, pid))} :
          /\ Len(kids) = 2
          /\ \E ids \in {[j \in 1..Len(kids) |-> df.rows[kids[j]]._id]} :
             IF PosOf(df.index, pid) = {} \/ PosOf(df.index, ids[1]) = {} \/ PosOf(df.index, ids[2]) = {}
             THEN /\ ret' = Error("KeyError", "label not in index")
                  /\ pc' = "error"
                  /\ UNCHANGED ct
             ELSE \E P \in {Loc(df.index, pid)},
                     a \in {df.rows[Loc(df.index, ids[1])]},
                     b \in {df.rows[Loc(df.index, ids[2])]},
                     retired \in {PosOf(df.index, ids[1]) \cup PosOf(df.index, ids[2])} :
                  \E parent \in {[_ids |-> a._ids \o b._ids, _mask |-> TRUE]
                                 @@ merge_row_pair(a, b, ct.kwargs)
                                 @@ [_id |-> df.rows[P]._id,
                                     parent_id |-> df.rows[P].parent_id,
                                     level |-> df.rows[P].level]} :
                     /\ ct' = [ct EXCEPT
                                 !.df.rows = [k \in 1..Len(df.rows) |->
                                     IF k = P /\ k \notin retired THEN parent
                                     ELSE IF k \in retired
                                          THEN [(IF k = P THEN parent ELSE df.rows[k]) EXCEPT !._mask = FALSE]
                                     ELSE df.rows[k]],
                                 !.drows = ct.drows - 1]
                     /\ UNCHANGED <<pc, ret>>
    /\ UNCHANGED <<call, gc, cr>>
    /\ UNCHANGED outer

\* Lines 1210-1218: no parent has both children live; the child of the
\* deepest parent takes its parent's _id, parent_id, level and label.
tree_promote ==
    /\ pc = "tree_loop"
    /\ ct.drows > 0
    /\ ParentIds(ct.df) # {}
    /\ \E df \in {ct.df} :
       \E top \in {TopParent(df, ct.by)} :
          /\ Cardinality(ChildrenOf(df, top)) # 2
          /\ IF \E p \in ParentIds(df) : PosOf(df.index, p) = {}
             THEN /\ ret' = Error("KeyError", "label not in index")
                  /\ pc' = "error"
                  /\ UNCHANGED ct
             ELSE \E parent_id \in {DeepestParent(df, ct.by)} :
                  \E child_id \in {df.rows[MinOf(ChildrenOf(df, parent_id))]._id} :
                  \E C \in {Loc(df.index, child_id)}, P \in {Loc(df.index, parent_id)} :
                     /\ ct' = [ct EXCEPT
                                 !.df.rows[C] = [df.rows[C] EXCEPT
                                                   !._id = df.rows[P]._id,
                                                   !.parent_id = df.rows[P].parent_id,
                                                   !.level = df.rows[P].level],
                                 !.df.index = [k \in 1..Len(df.index) |->
                                                 IF df.index[k] = child_id THEN parent_id
                                                 ELSE IF df.index[k] = parent_id THEN NaN
                                                 ELSE df.index[k]],
                                 !.columns = <<"_id", "parent_id", "level">>]
                     /\ UNCHANGED <<pc, ret>>
    /\ UNCHANGED <<call, gc, cr>>
    /\ UNCHANGED outer

\* return df[columns] (line 1226) of table t.
SelectColumns(t, columns) ==
    IF Range(columns) \subseteq Range(t.columns)
    THEN Returned(Project(t, columns))
    ELSE Error("KeyError", "columns not in index")

RetPc(r) == IF r.kind = "error" THEN "error" ELSE "done"

MutStillTooManyOrEqual(n, max_rows) == n >= max_rows

\* Line 1224: len(df) > max_rows.
StillTooMany(n, max_rows) == n > max_rows

\* Lines 1219-1226 once the loop has ended: the live rows, labelled by their
\* _ids, without the temporary columns; cluster_rows if they are still more
\* than max_rows.
tree_end ==
    /\ pc = "tree_loop"
    /\ (ct.drows <= 0 \/ ParentIds(ct.df) = {})
    /\ LET df == ct.df
           mask == [k \in 1..Len(df.rows) |-> df.rows[k]._mask]
           live == Masked(df.rows, mask)
           out == [columns |-> df.columns,
                   index |-> [k \in 1..Len(live) |-> live[k]._ids],
                   rows |-> [k \in 1..Len(live) |->
                               [c \in DOMAIN live[k] \ {"_id", "_ids", "_mask"} |-> live[k][c]]]]
       IN  IF StillTooMany(Len(live), ct.max_rows)
           THEN /\ cr' = CrCall([out EXCEPT !.index = [k \in 1..Len(live) |-> TupleLabel(live[k]._ids)]],
                                [k \in 1..Len(live) |-> Obs(live[k], ct.by)],
                                ct.max_rows, ct.kwargs, "cluster_row_trees")
                /\ pc' = "cluster_rows"
                /\ UNCHANGED ret
           ELSE /\ ret' = SelectColumns(out, ct.columns)
                /\ pc' = RetPc(ret')
                /\ UNCHANGED cr
    /\ UNCHANGED <<call, gc, ct>>
    /\ UNCHANGED outer

\* cluster_rows has returned to line 1225: return df[columns].
tree_return ==
    /\ pc = "tree_return"
    /\ ret' = SelectColumns(ret, ct.columns)
    /\ pc' = RetPc(ret')
    /\ UNCHANGED <<call, gc, cr, ct>>
    /\ UNCHANGED outer

\* ------------------------------------------- cluster_rows called directly
\* Rows a table handed to cluster_rows is drawn from.
RowValues ==
    { [ipm_region |-> "A", mw |-> 1, lcoe |-> <<1, 1>>],
      [ipm_region |-> "A", mw |-> 2, lcoe |-> <<4, 1>>],
      [ipm_region |-> "B", mw |-> 1, lcoe |-> <<2, 1>>],
      [ipm_region |-> "B", mw |-> 3, lcoe |-> <<4, 1>>] }

FlatColumns == <<"ipm_region", "mw", "lcoe">>

\* Merge rules of the doctests and of get_clusters, and two without a weight.
FlatRules ==
    { Rules(<<"mw">>, <<"lcoe">>, "mw", <<"ipm_region">>),
      Rules(<<"mw">>, <<>>, "", <<>>),
      Rules(<<>>, <<"lcoe">>, "", <<"ipm_region">>) }

\* Row labels: the default range index, or an iterable index as in the
\* doctest ([(1, 2), (4,), (3,)]).
FlatLabel(style, k) ==
    IF style = "scalar" THEN Scalar(k)
    ELSE IF k = 1 THEN TupleLabel(<<11, 12>>) ELSE TupleLabel(<<12 + k>>)

Column(t, key) == [k \in 1..Len(t.rows) |-> Obs(t.rows[k], key)]

InitFlat ==
    /\ pc = "cluster_rows"
    /\ \E n \in 1..MaxRows, style \in {"scalar", "tuple"}, kw \in FlatRules :
       \E rows \in [1..n -> RowValues], max_rows \in {None} \cup (0..(n + 1)) :
          LET df == [columns |-> FlatColumns,
                     index |-> [k \in 1..n |-> FlatLabel(style, k)],
                     rows |-> rows]
          IN  /\ call = [fn |-> "cluster_rows", df |-> df, max_rows |-> max_rows,
                         kwargs |-> kw, pass |-> 1, first |-> NoRet]
              /\ cr = CrCall(df, Column(df, "lcoe"), max_rows, kw, "")
    /\ gc = NoGc
    /\ ct = NoCt
    /\ ret = NoRet
    /\ self = NoSelf
    /\ bc = NoBc
    /\ bt = NoBt

\* The caller applies cluster_rows to its own result, with the same max_rows.
cluster_rows_again ==
    /\ pc = "done"
    /\ call.fn = "cluster_rows"
    /\ call.pass = 1
    /\ ret.kind = "table"
    /\ \A k \in 1..Len(ret.rows) : "lcoe" \in DOMAIN ret.rows[k]
    /\ LET df == [columns |-> ret.columns,
                  index |-> [k \in 1..Len(ret.index) |-> TupleLabel(ret.index[k])],
                  rows |-> ret.rows]
       IN  /\ call' = [call EXCEPT !.pass = 2, !.first = ret]
           /\ cr' = CrCall(df, Column(df, "lcoe"), call.max_rows, call.kwargs, "")
    /\ pc' = "cluster_rows"
    /\ ret' = NoRet
    /\ UNCHANGED <<gc, ct>>
    /\ UNCHANGED outer

NextFlat ==
    \/ cluster_rows_begin
    \/ cluster_rows_merge
    \/ cluster_rows_end
    \/ cluster_rows_again

SpecFlat == InitFlat /\ [][NextFlat]_vars

\* -------------------------------------- cluster_row_trees called directly
\* Two precomputed trees as build_row_tree lays them out: tree "a" is the
\* doctest's (leaves 1, 2, 3 at level 3; 4 = (1, 3) at level 2; root 5 =
\* (2, 4) at level 1) and tree "b" has leaves 6, 7 at level 2 and root 8.
TreeIds == 1..8

TreeLeaves == {1, 2, 3, 6, 7}

TreeParent == <<4, 5, 4, 5, NaN, 8, 8, NaN>>

TreeLevel == <<3, 3, 3, 2, 1, 2, 2, 1>>

TreeOf == <<"a", "a", "a", "a", "a", "b", "b", "b">>

TreeMw == <<1, 2, 2, 4, 6, 1, 3, 4>>

TreeRegion == <<"A", "A", "A", "A", "A", "B", "B", "B">>

\* The lcoe a leaf may have; internal rows have a fixed one.
TreeLcoe(id) ==
    CASE id = 1 -> {<<1, 1>>, <<5, 1>>}
      [] id = 2 -> {<<3, 1>>}
      [] id = 3 -> {<<2, 1>>, <<5, 1>>}
      [] id = 6 -> {<<2, 1>>}
      [] id = 7 -> {<<2, 1>>, <<4, 1>>}
      [] OTHER -> {<<3, 1>>}

TreeColumns == <<"ipm_region", "mw", "lcoe", "parent_id", "level", "tree">>

TreeRow(id, lcoe) ==
    [ipm_region |-> TreeRegion[id], mw |-> TreeMw[id], lcoe |-> lcoe,
     parent_id |-> TreeParent[id], level |-> TreeLevel[id], tree |-> TreeOf[id]]

\* The table of the rows ids (in id order) with the given lcoe values.
TreeTable(ids, lcoe) ==
    LET order == AscSeq(ids)
    IN  [columns |-> TreeColumns,
         index |-> order,
         rows |-> [k \in 1..Len(order) |-> TreeRow(order[k], lcoe[order[k]])]]

\* The row sets handed to cluster_row_trees: one tree or both, every
\* internal row, and at least one leaf of each tree (a missing leaf leaves
\* its sibling without a partner).
TreeRowSets ==
    {ids \in SUBSET TreeIds :
        /\ \E trees \in {{"a"}, {"a", "b"}} :
             /\ \A id \in ids : TreeOf[id] \in trees
             /\ \A id \in TreeIds \ TreeLeaves : TreeOf[id] \in trees => id \in ids
             /\ \A t \in trees : \E id \in ids \cap TreeLeaves : TreeOf[id] = t}

TreeLcoes ==
    { [id \in TreeIds |->
         CASE id = 1 -> x1 [] id = 3 -> x3 [] id = 7 -> x7
           [] OTHER -> CHOOSE x \in TreeLcoe(id) : TRUE]
      : x1 \in TreeLcoe(1), x3 \in TreeLcoe(3), x7 \in TreeLcoe(7) }

TreeRules ==
    { <<Rules(<<"mw">>, <<"lcoe">>, "mw", <<"ipm_region">>), "lcoe">>,
      <<Rules(<<"mw">>, <<>>, "", <<>>), "mw">>,
      <<Rules(<<"mw">>, <<>>, "", <<>>), "lcoe">> }

InitTree ==
    /\ pc = "cluster_row_trees"
    /\ \E ids \in TreeRowSets, lcoe \in TreeLcoes, kb \in TreeRules :
       \E tree \in (IF \E id \in ids : TreeOf[id] = "b" THEN {"tree"} ELSE {"tree", ""}),
          max_rows \in {None} \cup (0..(Cardinality(ids \cap TreeLeaves) + 1)) :
          LET df == TreeTable(ids, lcoe)
          IN  /\ call = [fn |-> "cluster_row_trees", df |-> df, by |-> kb[2], tree |-> tree,
                         max_rows |-> max_rows, kwargs |-> kb[1]]
              /\ ct = CtCall(df, kb[2], tree, max_rows, kb[1])
    /\ gc = NoGc
    /\ cr = NoCr
    /\ ret = NoRet
    /\ self = NoSelf
    /\ bc = NoBc
    /\ bt = NoBt

NextTree ==
    \/ cluster_row_trees_begin
    \/ tree_merge
    \/ tree_promote
    \/ tree_end
    \/ tree_return
    \/ cluster_rows_begin
    \/ cluster_rows_merge
    \/ cluster_rows_end

SpecTree == InitTree /\ [][NextTree]_vars

\* The loop of lines 1178-1218 and the statements after it run without
\* being suspended: an iteration or the exit that can be taken is taken.
SpecTreeRun == SpecTree /\ WF_vars(tree_merge \/ tree_promote \/ tree_end)

\* ------------------------------------------- ResourceGroup.get_clusters
\* ipm_regions = None.
AnyRegion == {"None"}

\* Positions of keys in sorted order.  pandas sorts with numpy's quicksort,
\* which is an insertion sort (stable) at these sizes, and a descending sort
\* reverses, sorts and reverses back, so ties keep their order both ways.
RECURSIVE SortFrom(_, _, _)
SortFrom(S, keys, ascending) ==
    IF S = {} THEN <<>>
    ELSE LET First(p) == \A q \in S \ {p} :
                 IF ascending
                 THEN RatLess(keys[p], keys[q]) \/ (keys[p] = keys[q] /\ p < q)
                 ELSE RatLess(keys[q], keys[p]) \/ (keys[p] = keys[q] /\ p < q)
             p == CHOOSE p \in S : First(p)
         IN  <<p>> \o SortFrom(S \ {p}, keys, ascending)

sort_values(t, by, ascending) ==
    LET order == SortFrom(1..Len(t.rows), [k \in 1..Len(t.rows) |-> Obs(t.rows[k], by)], ascending)
    IN  [columns |-> t.columns,
         index |-> [k \in 1..Len(order) |-> t.index[order[k]]],
         rows |-> [k \in 1..Len(order) |-> t.rows[order[k]]]]

\* cumsum of the mw of the rows at the positions elig (a sequence).
RECURSIVE CumSum(_, _)
CumSum(t, elig) ==
    IF elig = <<>> THEN <<>>
    ELSE LET head == CumSum(t, SubSeq(elig, 1, Len(elig) - 1))
         IN  Append(head, (IF head = <<>> THEN 0 ELSE head[Len(head)])
                          + t.rows[elig[Len(elig)]][CAPACITY])

\* numpy argmin of a boolean array (1-based): the first FALSE, or the first
\* element when all are TRUE.
ArgMin(temp) ==
    IF \E j \in 1..Len(temp) : ~temp[j]
    THEN MinOf({j \in 1..Len(temp) : ~temp[j]})
    ELSE 1

\* Lines 507-508: the rows whose running capacity is still below
\* min_capacity, and the first one that reaches it.
SelectCapacity(t, elig, min_capacity) ==
    LET temp == [j \in 1..Len(elig) |-> CumSum(t, elig)[j] < min_capacity]
    IN  [temp EXCEPT ![ArgMin(temp)] = TRUE]

\* mask[mask] = temp.
Assign(mask, temp) ==
    [k \in 1..Len(mask) |->
        IF mask[k] THEN temp[Cardinality({j \in 1..k : mask[j]})] ELSE FALSE]

MaskPositions(mask) == AscSeq({k \in 1..Len(mask) : mask[k]})

\* Line 512.
SelectLcoe(t, elig, max_lcoe) ==
    [j \in 1..Len(elig) |-> RatLeq(t.rows[elig[j]].lcoe, <<max_lcoe, 1>>)]

\* [key for key in KEYS if key in df]
Available(keys, t) == LET InDf(key) == key \in Range(t.columns) IN SelectSeq(keys, InDf)

\* The by argument of line 533: df[[by]].
FlatBy(df, mask, by) == [k \in 1..Len(df.rows) |-> Obs(df.rows[k], by)]

\* The rows of line 531: mask | ~base.
TreeRows(df, mask, base) == [k \in 1..Len(mask) |-> mask[k] \/ ~base[k]]

\* A reference to a frame: obj names the object referred to, "table" for
\* the frame the Table holds and "local" for a frame made during the call,
\* and frame is that object's content.  Table.read returns the Table's own
\* frame (lines 238-240 and 247-249), not a copy.
TableRead(df) == [obj |-> "table", frame |-> df]

MutSetIndexInPlace(ref) == ref

\* DataFrame.set_index returns a new frame.
set_index(ref) == [obj |-> "local", frame |-> ref.frame]

\* df[mask] returns a new frame.
Select(ref, mask) == [obj |-> "local", frame |-> MaskTable(ref.frame, mask)]

\* df[CAPACITY] *= cap_multiplier writes the frame referred to.
ScaleCapacity(ref, cap_multiplier) ==
    [ref EXCEPT !.frame.rows =
        [k \in 1..Len(@) |-> [@[k] EXCEPT ![CAPACITY] = @ * cap_multiplier]]]

\* Lines 487-493: the region filter and the capacity multiplier.
ReadMetadata(df, ipm_regions, cap_multiplier) ==
    LET indexed == set_index(TableRead(df))
        InRegion(k) == indexed.frame.rows[k].ipm_region \in ipm_regions
        regional == IF ipm_regions # AnyRegion
                    THEN Select(indexed, [k \in 1..Len(indexed.frame.rows) |-> InRegion(k)])
                    ELSE indexed
    IN  IF cap_multiplier # None
        THEN ScaleCapacity(regional, cap_multiplier)
        ELSE regional

\* The Table's frame after the call: written if the call's frame is it.
TableAfter(df, ref) == IF ref.obj = "table" THEN ref.frame ELSE df

\* Lines 505-512: the selection mask.
SelectMask(df, base, min_capacity, max_lcoe) ==
    LET mask1 == IF Truthy(min_capacity)
                 THEN Assign(base, SelectCapacity(df, MaskPositions(base), min_capacity))
                 ELSE base
    IN  IF Truthy(max_lcoe) /\ "lcoe" \in Range(df.columns)
        THEN Assign(mask1, SelectLcoe(df, MaskPositions(mask1), max_lcoe))
        ELSE mask1

\* The bound names are the method's local variables, each evaluated once.
get_clusters ==
    /\ pc = "get_clusters"
    /\ \E scaled \in {ReadMetadata(call.metadata, call.ipm_regions, call.cap_multiplier).frame} :
       \E by \in {IF "lcoe" \in Range(scaled.columns) THEN "lcoe" ELSE CAPACITY} :
       \E df \in {sort_values(scaled, by, by = "lcoe")} :
       \E tree \in {call.group.tree} :
       \E base \in {IF tree # "" THEN BaseMask(df, tree) ELSE [k \in 1..Len(df.rows) |-> TRUE]} :
       \E merge \in {Rules(Available(SUMS, df), Available(MEANS, df), WEIGHT, Available(UNIQUES, df))} :
          IF Truthy(call.min_capacity) /\ MaskPositions(base) = <<>>
          THEN /\ ret' = Error("ValueError", "attempt to get argmin of an empty sequence")
               /\ pc' = "error"
               /\ gc' = [kind |-> "frame", df |-> df, by |-> by, tree |-> tree, base |-> base,
                         mask |-> base, capacity |-> 0, warned |-> FALSE, merge |-> merge]
               /\ UNCHANGED <<cr, ct>>
          ELSE
       \E mask \in {SelectMask(df, base, call.min_capacity, call.max_lcoe)} :
       \E capacity \in {SumSeq([k \in 1..Len(MaskPositions(mask)) |->
                                  df.rows[MaskPositions(mask)[k]][CAPACITY]])} :
       \E frame \in {[kind |-> "frame", df |-> df, by |-> by, tree |-> tree, base |-> base,
                      mask |-> mask, capacity |-> capacity, warned |-> FALSE, merge |-> merge]} :
          IF \A k \in 1..Len(mask) : ~mask[k]
          THEN /\ ret' = Error("ValueError", "No resources found or selected")
               /\ pc' = "error"
               /\ gc' = frame
               /\ UNCHANGED <<cr, ct>>
          ELSE /\ gc' = [frame EXCEPT
                           !.warned = Truthy(call.min_capacity) /\ capacity < call.min_capacity]
               /\ IF tree # ""
                  THEN /\ ct' = CtCall(MaskTable(df, TreeRows(df, mask, base)), by, tree,
                                       call.max_clusters, merge)
                       /\ pc' = "cluster_row_trees"
                       /\ UNCHANGED <<cr, ret>>
                  ELSE /\ cr' = CrCall([MaskTable(df, mask) EXCEPT
                                          !.index = [k \in 1..Len(@) |-> Scalar(@[k])]],
                                       FlatBy(df, mask, by), call.max_clusters, merge,
                                       "get_clusters")
                       /\ pc' = "cluster_rows"
                       /\ UNCHANGED <<ct, ret>>
    /\ call' = [call EXCEPT !.metadata =
                   TableAfter(@, ReadMetadata(@, call.ipm_regions, call.cap_multiplier))]
    /\ UNCHANGED outer

\* A resource group's metadata (indexed by id) without a tree: up to
\* MaxRows resources, with or without an lcoe column.
GroupTables ==
    UNION { { [columns |-> IF lcoe THEN FlatColumns ELSE <<"ipm_region", "mw">>,
               index |-> [k \in 1..n |-> k],
               rows |-> [k \in 1..n |->
                           [c \in (IF lcoe THEN {"ipm_region", "mw", "lcoe"} ELSE {"ipm_region", "mw"})
                              |-> rows[k][c]]]]
              : rows \in [1..n -> RowValues], lcoe \in BOOLEAN }
            : n \in 0..MaxRows }

\* The metadata of a group of one or two complete precomputed trees.
GroupTrees ==
    { TreeTable(ids, lcoe) : ids \in {{1, 2, 3, 4, 5}, TreeIds}, lcoe \in TreeLcoes }

Init ==
    /\ pc = "get_clusters"
    /\ \E tree \in {"", "tree"} :
       \E metadata \in (IF tree = "" THEN GroupTables ELSE GroupTrees),
          ipm_regions \in {AnyRegion, {"A"}, {"C"}},
          min_capacity \in {None, 0, 3, 100},
          max_clusters \in {None, 1, 2},
          max_lcoe \in {None, 3},
          cap_multiplier \in {None, 2} :
          call = [fn |-> "get_clusters", group |-> [tree |-> tree], metadata |-> metadata,
                  ipm_regions |-> ipm_regions, min_capacity |-> min_capacity,
                  max_clusters |-> max_clusters, max_lcoe |-> max_lcoe,
                  cap_multiplier |-> cap_multiplier]
    /\ gc = NoGc
    /\ cr = NoCr
    /\ ct = NoCt
    /\ ret = NoRet
    /\ self = NoSelf
    /\ bc = NoBc
    /\ bt = NoBt

Next ==
    \/ get_clusters
    \/ cluster_rows_begin
    \/ cluster_rows_merge
    \/ cluster_rows_end
    \/ cluster_row_trees_begin
    \/ tree_merge
    \/ tree_promote
    \/ tree_end
    \/ tree_return

Spec == Init /\ [][Next]_vars

\* ------------------------------------------------------- ClusterBuilder
\* ResourceGroup.get_cluster_profiles: the profiles table is a function from
\* the ids it has a column for to the hourly values (a sequence of
\* rationals); ids is a sequence of id-tuples.  A missing profile column, or
\* an id of a group of several that the metadata lacks, is a KeyError.
RECURSIVE RatSum(_)
RatSum(s) ==
    IF s = <<>> THEN <<0, 1>>
    ELSE LET t == RatSum(Tail(s))
         IN  Rat(s[1][1] * t[2] + t[1] * s[1][2], s[1][2] * t[2])

RatMul(p, q) == Rat(p[1] * q[1], p[2] * q[2])

\* weights = mw / mw.sum() of the resources cids.
MutWeightsEqual(metadata, cids) ==
    [j \in 1..Len(cids) |-> Rat(1, Len(cids))]

Weights(metadata, cids) ==
    LET mw == [j \in 1..Len(cids) |-> metadata.rows[Loc(metadata.index, cids[j])][WEIGHT]]
    IN  [j \in 1..Len(cids) |-> Rat(mw[j], SumSeq(mw))]

Hours(profiles) == IF DOMAIN profiles = {} THEN 0 ELSE Len(profiles[CHOOSE x \in DOMAIN profiles : TRUE])

\* Lines 562-568: one row of the result.
ClusterProfile(metadata, profiles, cids) ==
    IF Len(cids) = 1
    THEN profiles[cids[1]]
    ELSE [h \in 1..Hours(profiles) |->
            RatSum([j \in 1..Len(cids) |->
                       RatMul(profiles[cids[j]][h], Weights(metadata, cids)[j])])]

get_cluster_profiles(rg, ids) ==
    LET columns == UNION {Range(ids[i]) : i \in 1..Len(ids)}
        Several(i) == Len(ids[i]) # 1
    IN  IF ~(columns \subseteq DOMAIN rg.profiles)
        THEN Error("KeyError", "profiles")
        ELSE IF \E i \in 1..Len(ids) :
                   Several(i) /\ ~(Range(ids[i]) \subseteq Range(rg.metadata.index))
        THEN Error("KeyError", "metadata")
        ELSE [kind |-> "array",
              rows |-> [i \in 1..Len(ids) |-> ClusterProfile(rg.metadata, rg.profiles, ids[i])]]

\* Lines 674-678: the positions of the groups every selector matches;
\* kwargs is a sequence of <<key, value>> pairs.
find_groups(groups, kwargs) ==
    LET Matches(g) == \A i \in 1..Len(kwargs) :
                         /\ kwargs[i][1] \in DOMAIN groups[g].group
                         /\ groups[g].group[kwargs[i][1]] = kwargs[i][2]
    IN  AscSeq({g \in 1..Len(groups) : Matches(g)})

\* The resource groups of the ClusterBuilder doctest (lines 601-609), the
\* second with a third resource, an lcoe column and no profile of resource 2.
BuilderGroups ==
    << [group |-> [technology |-> "utilitypv", existing |-> FALSE, tree |-> ""],
        metadata |-> [columns |-> <<"ipm_region", "mw">>,
                      index |-> <<0, 1>>,
                      rows |-> <<[ipm_region |-> "A", mw |-> 1],
                                 [ipm_region |-> "A", mw |-> 2]>>],
        profiles |-> (0 :> <<<<1, 10>>, <<1, 2>>>>) @@ (1 :> <<<<2, 5>>, <<1, 1>>>>)],
       [group |-> [technology |-> "utilitypv", existing |-> TRUE, tree |-> ""],
        metadata |-> [columns |-> <<"ipm_region", "mw", "lcoe">>,
                      index |-> <<0, 1, 2>>,
                      rows |-> <<[ipm_region |-> "B", mw |-> 2, lcoe |-> <<1, 1>>],
                                 [ipm_region |-> "B", mw |-> 1, lcoe |-> <<2, 1>>],
                                 [ipm_region |-> "B", mw |-> 1, lcoe |-> <<2, 1>>]>>],
        profiles |-> (0 :> <<<<1, 10>>, <<0, 1>>>>) @@ (1 :> <<<<2, 5>>, <<1, 2>>>>)] >>

\* Selectors matching both groups, the first, the second and none.
Selectors ==
    { << <<"technology", "utilitypv">> >>,
      << <<"technology", "utilitypv">>, <<"existing", FALSE>> >>,
      << <<"technology", "utilitypv">>, <<"existing", TRUE>> >>,
      << <<"technology", "landbasedwind">> >> }

\* The arguments build_clusters passes on to get_clusters: the defaults, the
\* region filter alone, the filter with a capacity target, all resources
\* scaled and merged into one cluster, and all of them together.
Selections ==
    { [ipm_regions |-> AnyRegion, min_capacity |-> None, max_clusters |-> None,
       max_lcoe |-> None, cap_multiplier |-> None],
      [ipm_regions |-> {"B"}, min_capacity |-> None, max_clusters |-> None,
       max_lcoe |-> None, cap_multiplier |-> None],
      [ipm_regions |-> {"B"}, min_capacity |-> 3, max_clusters |-> None,
       max_lcoe |-> None, cap_multiplier |-> None],
      [ipm_regions |-> AnyRegion, min_capacity |-> None, max_clusters |-> 1,
       max_lcoe |-> None, cap_multiplier |-> 2],
      [ipm_regions |-> {"B"}, min_capacity |-> 3, max_clusters |-> 1,
       max_lcoe |-> None, cap_multiplier |-> 2] }

\* The arguments of one build_clusters call.
Requests ==
    { [region |-> region, kwargs |-> kwargs, ipm_regions |-> sel.ipm_regions,
       min_capacity |-> sel.min_capacity, max_clusters |-> sel.max_clusters,
       max_lcoe |-> sel.max_lcoe, cap_multiplier |-> sel.cap_multiplier] :
      region \in {"A", "B"}, kwargs \in Selectors, sel \in Selections }

\* bc.log keeps, for every build_clusters call that has returned, its
\* arguments, the groups they resolved to and what the call computed or raised.
InitBuilder ==
    /\ pc = "idle"
    /\ self = [kind |-> "ClusterBuilder", groups |-> BuilderGroups, clusters |-> <<>>]
    /\ bc = [kind |-> "none", n |-> 0, log |-> <<>>]
    /\ call = [fn |-> "__init__"]
    /\ gc = NoGc
    /\ cr = NoCr
    /\ ct = NoCt
    /\ ret = NoRet
    /\ bt = NoBt

\* Lines 713-727, up to the call of get_clusters.
build_clusters_begin ==
    /\ pc = "idle"
    /\ bc.n < MaxBuilds
    /\ \E rq \in Requests :
       \E groups \in {find_groups(self.groups, rq.kwargs)} :
          /\ gc' = NoGc
          /\ cr' = NoCr
          /\ ct' = NoCt
          /\ IF Len(groups) > 1
             THEN /\ ret' = Error("ValueError", "Parameters match multiple resource groups")
                  /\ bc' = [kind |-> "returned", n |-> bc.n + 1, rq |-> rq, groups |-> groups,
                            log |-> Append(bc.log, [rq |-> rq, groups |-> groups, out |-> ret'])]
                  /\ call' = [fn |-> "build_clusters"]
                  /\ pc' = "idle"
             ELSE IF Len(groups) = 0
             THEN /\ ret' = Error("IndexError", "list index out of range")
                  /\ bc' = [kind |-> "returned", n |-> bc.n + 1, rq |-> rq, groups |-> groups,
                            log |-> Append(bc.log, [rq |-> rq, groups |-> groups, out |-> ret'])]
                  /\ call' = [fn |-> "build_clusters"]
                  /\ pc' = "idle"
             ELSE /\ ret' = NoRet
                  /\ bc' = [kind |-> "frame", n |-> bc.n + 1, rq |-> rq, groups |-> groups,
                            log |-> bc.log]
                  /\ call' = [fn |-> "get_clusters",
                              group |-> self.groups[groups[1]].group,
                              metadata |-> self.groups[groups[1]].metadata,
                              ipm_regions |-> rq.ipm_regions,
                              min_capacity |-> rq.min_capacity,
                              max_clusters |-> rq.max_clusters,
                              max_lcoe |-> rq.max_lcoe,
                              cap_multiplier |-> rq.cap_multiplier]
                  /\ pc' = "get_clusters"
    /\ UNCHANGED <<self, bt>>

MutPrependRecord(clusters, c) == <<c>> \o clusters

\* Line 730: self.clusters.append(c).
AppendRecord(clusters, c) == Append(clusters, c)

\* Lines 717-730, from the return of get_clusters: the group's metadata
\* Table holds the frame get_clusters left in it.
build_clusters_end ==
    /\ pc \in {"done", "error"}
    /\ bc.kind = "frame"
    /\ LET g == bc.groups[1]
           groups == [self.groups EXCEPT ![g].metadata = call.metadata]
           profiles == get_cluster_profiles(groups[g], ret.index)
           Logged(out) == [bc EXCEPT !.kind = "returned",
                                     !.log = Append(@, [rq |-> bc.rq, groups |-> bc.groups,
                                                        out |-> out])]
       IN  IF ret.kind = "error"
           THEN /\ self' = [self EXCEPT !.groups = groups]
                /\ bc' = Logged(ret)
                /\ UNCHANGED ret
           ELSE IF profiles.kind = "error"
           THEN /\ self' = [self EXCEPT !.groups = groups]
                /\ bc' = Logged(profiles)
                /\ ret' = profiles
           ELSE /\ self' = [self EXCEPT !.groups = groups,
                                        !.clusters = AppendRecord(@,
                                           [group |-> g, kwargs |-> bc.rq.kwargs,
                                            region |-> bc.rq.region,
                                            clusters |-> [columns |-> ret.columns,
                                                          index |-> ret.index,
                                                          rows |-> ret.rows],
                                            profiles |-> profiles.rows])]
                /\ bc' = Logged([kind |-> "built",
                                  clusters |-> [columns |-> ret.columns, index |-> ret.index,
                                                rows |-> ret.rows],
                                  profiles |-> profiles.rows])
                /\ ret' = NoRet
    /\ call' = [fn |-> "build_clusters"]
    /\ pc' = "idle"
    /\ UNCHANGED <<gc, cr, ct, bt>>

\* Column names in order of first appearance.
RECURSIVE Distinct(_)
Distinct(s) ==
    IF s = <<>> THEN <<>>
    ELSE LET head == Distinct(SubSeq(s, 1, Len(s) - 1))
         IN  IF s[Len(s)] \in Range(head) THEN head ELSE Append(head, s[Len(s)])

Keys(kwargs) == [i \in 1..Len(kwargs) |-> kwargs[i][1]]

KwValue(kwargs, key) == kwargs[CHOOSE i \in 1..Len(kwargs) : kwargs[i][1] = key][2]

MutTagsOfFirstRecord(clusters, c) ==
    LET df == clusters[c].clusters
    IN  [columns |-> Distinct(<<"ids">> \o df.columns \o <<"region">> \o Keys(clusters[1].kwargs)),
         rows |-> [k \in 1..Len(df.rows) |->
                     [key \in Range(Keys(clusters[1].kwargs)) |-> KwValue(clusters[1].kwargs, key)]
                     @@ ("region" :> clusters[1].region)
                     @@ ("ids" :> df.index[k])
                     @@ df.rows[k]]]

\* Lines 750-755: df.assign(region, **kwargs).rename_axis("ids").reset_index()
\* of record c.
Tagged(clusters, c) ==
    LET df == clusters[c].clusters
    IN  [columns |-> Distinct(<<"ids">> \o df.columns \o <<"region">> \o Keys(clusters[c].kwargs)),
         rows |-> [k \in 1..Len(df.rows) |->
                     [key \in Range(Keys(clusters[c].kwargs)) |-> KwValue(clusters[c].kwargs, key)]
                     @@ ("region" :> clusters[c].region)
                     @@ ("ids" :> df.index[k])
                     @@ df.rows[k]]]

\* pd.concat(dfs, axis=0, ignore_index=True, sort=False).
Concat(dfs) ==
    LET rows == Flatten([i \in 1..Len(dfs) |-> dfs[i].rows])
    IN  [columns |-> Distinct(Flatten([i \in 1..Len(dfs) |-> dfs[i].columns])),
         index |-> [k \in 1..Len(rows) |-> k - 1],
         rows |-> rows]

\* Lines 747-757.
get_cluster_metadata ==
    /\ pc = "idle"
    /\ call.fn # "get_cluster_metadata"
    /\ ret' = IF self.clusters = <<>>
              THEN Error("ValueError", "No clusters have been built")
              ELSE Returned(Concat([c \in 1..Len(self.clusters) |-> Tagged(self.clusters, c)]))
    /\ call' = [fn |-> "get_cluster_metadata"]
    /\ UNCHANGED <<pc, gc, cr, ct, self, bc, bt>>

MutStackReversed(clusters) ==
    Flatten([c \in 1..Len(clusters) |-> clusters[Len(clusters) + 1 - c].profiles])

\* np.row_stack of the records' profiles.
RowStack(clusters) == Flatten([c \in 1..Len(clusters) |-> clusters[c].profiles])

\* ClusterBuilder.get_cluster_profiles, lines 773-774.
builder_get_cluster_profiles ==
    /\ pc = "idle"
    /\ call.fn # "ClusterBuilder.get_cluster_profiles"
    /\ ret' = IF self.clusters = <<>>
              THEN Error("ValueError", "No clusters have been built")
              ELSE [kind |-> "array", rows |-> RowStack(self.clusters)]
    /\ call' = [fn |-> "ClusterBuilder.get_cluster_profiles"]
    /\ UNCHANGED <<pc, gc, cr, ct, self, bc, bt>>

\* Id-tuples of one or two of the resource ids 0, 1, 2.
IdTuples ==
    {<<x>> : x \in 0..2} \cup {t \in (0..2) \X (0..2) : t[1] # t[2]}

\* A resource group of three resources, resource 2 possibly without a
\* profile, and one or two id groups.
InitProfiles ==
    /\ pc = "get_cluster_profiles"
    /\ \E mw \in [1..3 -> {1, 2}], columns \in {0..2, 0..1} :
          self = [kind |-> "ResourceGroup",
                  group |-> [technology |-> "utilitypv", existing |-> FALSE, tree |-> ""],
                  metadata |-> [columns |-> <<"ipm_region", "mw">>,
                                index |-> <<0, 1, 2>>,
                                rows |-> [k \in 1..3 |-> [ipm_region |-> "A", mw |-> mw[k]]]],
                  profiles |-> [x \in columns |->
                                  <<Rat(x + 1, 10), Rat(3 - x, 4), Rat(1, x + 1)>>]]
    /\ \E ids \in {<<t>> : t \in IdTuples} \cup {<<t, u>> : t \in IdTuples, u \in IdTuples} :
          call = [fn |-> "ResourceGroup.get_cluster_profiles", ids |-> ids, first |-> NoRet]
    /\ bc = NoBc
    /\ gc = NoGc
    /\ cr = NoCr
    /\ ct = NoCt
    /\ ret = NoRet
    /\ bt = NoBt

\* ResourceGroup.get_cluster_profiles, lines 549-569; the frames it writes
\* (metadata.index, weights) are copies made by the call.
group_get_cluster_profiles ==
    /\ pc = "get_cluster_profiles"
    /\ ret' = get_cluster_profiles(self, call.ids)
    /\ pc' = IF ret'.kind = "error" THEN "error" ELSE "done"
    /\ UNCHANGED <<call, gc, cr, ct, self, bc, bt>>

\* The same call made again on the same group.
group_get_cluster_profiles_again ==
    /\ pc \in {"done", "error"}
    /\ call.fn = "ResourceGroup.get_cluster_profiles"
    /\ call.first = NoRet
    /\ call' = [call EXCEPT !.first = ret]
    /\ ret' = NoRet
    /\ pc' = "get_cluster_profiles"
    /\ UNCHANGED <<gc, cr, ct, self, bc, bt>>

NextProfiles ==
    \/ group_get_cluster_profiles
    \/ group_get_cluster_profiles_again

SpecProfiles == InitProfiles /\ [][NextProfiles]_vars

NextBuilder ==
    \/ build_clusters_begin
    \/ get_clusters
    \/ cluster_rows_begin
    \/ cluster_rows_merge
    \/ cluster_rows_end
    \/ build_clusters_end
    \/ get_cluster_metadata
    \/ builder_get_cluster_profiles

SpecBuilder == InitBuilder /\ [][NextBuilder]_vars

\* ------------------------------------------------ claims about cluster_rows
Terminated == pc \in {"done", "error"}

FlatCall == call.fn = "cluster_rows"

\* Number of live rows among those that exist after cr.i merges.
LiveCount(f) == Cardinality({k \in 1..(f.nrows + f.i) : f.mask[k]})

InputMw(t) == SumSeq([k \in 1..Len(t.rows) |-> t.rows[k].mw])

InputIds(t) == Flatten([k \in 1..Len(t.index) |-> _tuple(t.index[k])])

\* C4 (final part): with 1 <= max_rows <= n, cluster_rows ends by returning
\* exactly max_rows rows after exactly n - max_rows merges.
C4_Final ==
    (FlatCall /\ Terminated /\ cr.max_rows # None
        /\ 1 <= cr.max_rows /\ cr.max_rows <= Len(cr.df.rows))
    => /\ pc = "done"
       /\ ret.kind = "table"
       /\ Len(ret.rows) = cr.max_rows
       /\ Len(ret.index) = cr.max_rows
       /\ cr.i = Len(cr.df.rows) - cr.max_rows

\* C4 (step part): every iteration of the merge loop retires two distinct rows
\* that exist and are live at that moment, and adds one live row.
C4_Step ==
    (FlatCall /\ pc = "cluster_rows_loop" /\ cr.i < Len(cr.Z))
    => LET link == cr.Z[cr.i + 1]
       IN  /\ pc' = "cluster_rows_loop"
           /\ cr'.i = cr.i + 1
           /\ link[1] # link[2]
           /\ \A l \in {link[1], link[2]} :
                 l <= cr.nrows + cr.i /\ cr.mask[l] /\ ~cr'.mask[l] /\ ~IsNone(cr.rows[l])
           /\ cr'.mask[cr.nrows + cr.i + 1]
           /\ ~IsNone(cr'.rows[cr.nrows + cr.i + 1])
           /\ LiveCount(cr') = LiveCount(cr) - 1

\* C4: for every table of n rows and every max_rows in 1..n, cluster_rows
\* performs exactly n - max_rows pairwise merges, each retiring two rows live
\* at that moment and adding one, and returns exactly max_rows rows.
C4_ExactMerges == [][C4_Step]_vars /\ []C4_Final

C4_Witness ==
    /\ FlatCall /\ pc = "done" /\ call.pass = 1
    /\ Len(cr.df.rows) = 3 /\ cr.max_rows = 1 /\ cr.i = 2
    /\ Len(ret.rows) = 1

\* C5 (final part): the returned id-tuples, flattened, hold every input id
\* exactly once.
C5_Final ==
    (FlatCall /\ Terminated /\ (cr.max_rows = None \/ cr.max_rows >= 1))
    => /\ pc = "done"
       /\ Len(Flatten(ret.index)) = Len(InputIds(cr.df))
       /\ Range(Flatten(ret.index)) = Range(InputIds(cr.df))

\* C5 (step part): a merged row's tuple is the left operand's tuple followed
\* by the right operand's.
C5_Step ==
    (FlatCall /\ pc = "cluster_rows_loop" /\ cr'.i = cr.i + 1)
    => LET link == cr.Z[cr.i + 1]
       IN  cr'.index[cr.nrows + cr.i + 1] = cr.index[link[1]] \o cr.index[link[2]]

\* C5: for any table and any max_rows in [1, n] the returned id-tuples,
\* flattened, contain every input id exactly once; a merged tuple is left
\* operand then right operand, and tuple ids are concatenated, not nested.
C5_IdsPreserved == [][C5_Step]_vars /\ []C5_Final

C5_Witness ==
    /\ FlatCall /\ pc = "done" /\ call.pass = 1
    /\ cr.df.index[1].t = "tuple"
    /\ Len(cr.df.rows) = 3 /\ cr.max_rows = 1
    /\ Len(ret.index) = 1 /\ Len(ret.index[1]) = 4

\* C6: whenever mw is in the sum rules, the mw of the returned rows sums to
\* the mw of the input rows, for every max_rows and every merge order.
C6_MassConserved ==
    (FlatCall /\ pc = "done" /\ CAPACITY \in Range(cr.kwargs.sums))
    => SumSeq([k \in 1..Len(ret.rows) |-> ret.rows[k].mw]) = InputMw(cr.df)

C6_Witness ==
    /\ FlatCall /\ pc = "done" /\ CAPACITY \in Range(cr.kwargs.sums)
    /\ cr.i = 2 /\ Len(ret.rows) = 1 /\ ret.rows[1].mw = 6

\* The input labels as cluster_rows returns them when nothing is merged.
WrappedIndex(t) ==
    [k \in 1..Len(t.index) |->
        IF t.index[k].t = "scalar" THEN <<t.index[k].v>> ELSE t.index[k].v]

\* C7: with max_rows unset, equal to or above the row count, cluster_rows
\* merges nothing and returns the input rows, same values, same order, ids
\* wrapped as one-tuples; applied again to that result it returns it unchanged.
C7_NoMergeIdentity ==
    (FlatCall /\ Terminated /\ (call.max_rows = None \/ call.max_rows >= Len(call.df.rows)))
    => /\ pc = "done"
       /\ cr.i = 0
       /\ cr.rows = <<>>
       /\ ret.columns = call.df.columns
       /\ ret.rows = call.df.rows
       /\ ret.index = WrappedIndex(call.df)
       /\ call.pass = 2 => ret = call.first

C7_Witness ==
    /\ FlatCall /\ pc = "done" /\ call.pass = 2
    /\ call.max_rows = None /\ Len(call.df.rows) = 3
    /\ call.df.index[1].t = "scalar"
    /\ ret = call.first /\ ret.index[3] = <<3>>

\* ------------------------------------------- claims about cluster_row_trees
TreeCall == call.fn = "cluster_row_trees"

\* The base rows of the table handed to cluster_row_trees: the rows no row
\* of their tree (of the table, without a tree column) lies below.
BaseIds(df, tree) ==
    LET IsBase(k) == \A j \in 1..Len(df.rows) :
                        (tree = "" \/ df.rows[j][tree] = df.rows[k][tree])
                        => df.rows[j].level <= df.rows[k].level
    IN  [j \in 1..Len(AscSeq({k \in 1..Len(df.rows) : IsBase(k)})) |->
            df.index[AscSeq({k \in 1..Len(df.rows) : IsBase(k)})[j]]]

ValidTreeArgs == call.by \in Range(MergeColumns(call.kwargs))

\* C3 (as claimed): for every table of well-formed trees and 1 <= max_rows <=
\* number of base rows, also when a base row's sibling is absent,
\* cluster_row_trees returns exactly max_rows rows whose id-tuples, flattened,
\* hold every base-row id exactly once.
C3_TreesReachMaxRows ==
    (TreeCall /\ Terminated /\ ValidTreeArgs /\ call.max_rows # None
        /\ 1 <= call.max_rows /\ call.max_rows <= Len(BaseIds(call.df, call.tree)))
    => /\ pc = "done"
       /\ ret.kind = "table"
       /\ Len(ret.rows) = call.max_rows
       /\ Len(Flatten(ret.index)) = Len(BaseIds(call.df, call.tree))
       /\ Range(Flatten(ret.index)) = Range(BaseIds(call.df, call.tree))

GroupCall == call.fn = "get_clusters"

\* get_clusters has computed its selection (and not failed while doing so).
Selected ==
    /\ GroupCall
    /\ gc.kind = "frame"
    /\ ret # Error("ValueError", "attempt to get argmin of an empty sequence")

SelectedIds == Range(Masked(gc.df.index, gc.mask))

SelectedCount == Len(Masked(gc.df.index, gc.mask))

\* The selection some limit has cut down and max_clusters is below.
CutAndClustered ==
    /\ Selected
    /\ gc.tree = ""
    /\ \E k \in 1..Len(gc.mask) : ~gc.mask[k]
    /\ call.max_clusters # None
    /\ 1 <= call.max_clusters
    /\ call.max_clusters < SelectedCount

\* C1 (as claimed): for a group without a tree, when min_capacity or max_lcoe
\* exclude rows and max_clusters is below the number of selected rows, the
\* observations handed to cluster_rows are those of the selected rows, one
\* each and in order, and the call returns max_clusters clusters whose
\* id-tuples hold exactly the selected ids.
C1_FlatClustersSelection ==
    CutAndClustered
    => /\ cr.by = [k \in 1..Len(cr.df.rows) |-> Obs(cr.df.rows[k], gc.by)]
       /\ Terminated => /\ ret.kind = "table"
                        /\ Len(ret.rows) = call.max_clusters
                        /\ Len(Flatten(ret.index)) = SelectedCount
                        /\ Range(Flatten(ret.index)) = SelectedIds

\* C2 (as claimed): for a group of trees, every id in a returned id-tuple is
\* a selected base row, also when the selection takes no base row of a tree.
C2_OnlySelectedBaseRows ==
    (Selected /\ gc.tree # "" /\ Terminated /\ ret.kind = "table")
    => Range(Flatten(ret.index)) \subseteq SelectedIds

\* The length of the shortest non-empty prefix of the eligible rows whose
\* capacity reaches min_capacity; all of them when none does.
ShortestPrefix(df, elig, min_capacity) ==
    LET Reaches(m) == CumSum(df, elig)[m] >= min_capacity
    IN  IF \E m \in 1..Len(elig) : Reaches(m)
        THEN MinOf({m \in 1..Len(elig) : Reaches(m)})
        ELSE Len(elig)

\* The rows the selection rule names, for limits that are given (not None).
RuleMask(df, base, min_capacity, max_lcoe) ==
    LET elig == MaskPositions(base)
        InPrefix(k) ==
            \/ min_capacity = None
            \/ \E j \in 1..ShortestPrefix(df, elig, min_capacity) : elig[j] = k
        Cheap(k) ==
            \/ max_lcoe = None
            \/ "lcoe" \notin Range(df.columns)
            \/ RatLeq(df.rows[k].lcoe, <<max_lcoe, 1>>)
    IN  [k \in 1..Len(base) |-> base[k] /\ InPrefix(k) /\ Cheap(k)]

\* The rows of the frame are in the order of the sort.
Ordered(df, by) ==
    \A k \in 1..(Len(df.rows) - 1) :
        IF by = "lcoe"
        THEN RatLeq(df.rows[k].lcoe, df.rows[k + 1].lcoe)
        ELSE df.rows[k][CAPACITY] >= df.rows[k + 1][CAPACITY]

\* C9 (as claimed): with the rows in ascending lcoe (descending mw without
\* lcoe), the selection is the shortest prefix of the eligible rows whose
\* cumulative mw reaches min_capacity (all of them if never reached, at
\* least one row), restricted to lcoe <= max_lcoe when max_lcoe is given.
C9_SelectionIsShortestPrefix ==
    Selected
    => /\ Ordered(gc.df, gc.by)
       /\ gc.mask = RuleMask(gc.df, gc.base, call.min_capacity, call.max_lcoe)

\* The same statement for a min_capacity other than 0.
SelectionForNonZeroMinCapacity ==
    (Selected /\ call.min_capacity # 0)
    => /\ Ordered(gc.df, gc.by)
       /\ gc.mask = RuleMask(gc.df, gc.base, call.min_capacity, call.max_lcoe)

\* C10 (as claimed): an empty final selection always raises "No resources
\* found or selected", with or without min_capacity; a selection short of
\* min_capacity only warns and the call returns the clusters of the
\* selected rows.
C10_EmptySelectionError ==
    (GroupCall /\ gc.kind = "frame")
    => /\ SelectedCount = 0
          => ret = Error("ValueError", "No resources found or selected")
       /\ (SelectedCount > 0 /\ call.min_capacity # None
              /\ gc.capacity < call.min_capacity)
          => /\ gc.warned
             /\ Terminated => /\ ret.kind = "table"
                              /\ Range(Flatten(ret.index)) = SelectedIds

\* --------------------------------------------- claims about ClusterBuilder
\* A build_clusters call returns in this step, normally or with an error.
BuildReturns == bc'.kind = "returned" /\ (bc.kind = "frame" \/ bc'.n = bc.n + 1)

\* C11: the sequence of built-cluster records changes only when a
\* build_clusters call returns normally, and then by exactly one record
\* appended at the end; a build_clusters call that raises (group resolution,
\* empty selection, clustering or profile error) and the two get_cluster_*
\* calls leave every record as it was.
C11_Step ==
    IF BuildReturns /\ ret'.kind # "error"
    THEN /\ Len(self'.clusters) = Len(self.clusters) + 1
         /\ SubSeq(self'.clusters, 1, Len(self.clusters)) = self.clusters
    ELSE self'.clusters = self.clusters

C11_RecordsAppendOnly == [][C11_Step]_vars

\* A record is there and a later build_clusters call has failed computing
\* the profiles of the clusters it had computed.
C11_Witness ==
    /\ Len(self.clusters) = 1
    /\ bc.kind = "returned"
    /\ bc.n = 2
    /\ ret = Error("KeyError", "profiles")

\* The selectors of the last build_clusters call did not resolve to exactly
\* one group, and the call has returned.
ResolutionFailed ==
    /\ call.fn = "build_clusters"
    /\ bc.kind = "returned"
    /\ Len(bc.groups) # 1

\* C12: when the selectors match no group, just as when they match several,
\* build_clusters raises the explicit error that names the resolution
\* problem, before any metadata is read or any clustering is performed.
C12_ResolutionErrorExplicit ==
    ResolutionFailed =>
        /\ ret.kind = "error"
        /\ ret.exc = "ValueError"
        /\ ret.msg = "Parameters match multiple resource groups"
              \/ ret.msg = "Parameters match no resource group"
        /\ gc = NoGc /\ cr = NoCr /\ ct = NoCt

\* The number of cluster rows of the records before record c.
RowsBefore(c) ==
    Len(Flatten([j \in 1..(c - 1) |-> self.clusters[j].clusters.rows]))

\* Row k of record c, as the metadata table shows it: the cluster's own
\* attributes, its id-tuple in column ids, the record's region and selectors.
ShowsCluster(row, c, k) ==
    LET rec == self.clusters[c]
    IN  /\ row["ids"] = rec.clusters.index[k]
        /\ row["region"] = rec.region
        /\ \A i \in 1..Len(rec.kwargs) : row[rec.kwargs[i][1]] = rec.kwargs[i][2]
        /\ \A col \in Range(rec.clusters.columns) : row[col] = rec.clusters.rows[k][col]

\* C13: get_cluster_metadata returns one row per built cluster, the records
\* in call order and the clusters of a record in the order of its cluster
\* table, each row with its record's region and selectors and its id-tuple
\* in column ids; get_cluster_profiles returns one profile row per built
\* cluster in the same order, row i being the profile of the resources in
\* the id-tuple of metadata row i.
C13_RowsInRecordOrder ==
    /\ (call.fn = "get_cluster_metadata" /\ ret.kind = "table") =>
          /\ Len(ret.rows) = RowsBefore(Len(self.clusters) + 1)
          /\ \A c \in 1..Len(self.clusters) :
                \A k \in 1..Len(self.clusters[c].clusters.rows) :
                   ShowsCluster(ret.rows[RowsBefore(c) + k], c, k)
    /\ (call.fn = "ClusterBuilder.get_cluster_profiles" /\ ret.kind = "array") =>
          /\ Len(ret.rows) = RowsBefore(Len(self.clusters) + 1)
          /\ \A c \in 1..Len(self.clusters) :
                \A k \in 1..Len(self.clusters[c].clusters.rows) :
                   LET rg == self.groups[self.clusters[c].group]
                   IN  ret.rows[RowsBefore(c) + k]
                          = ClusterProfile(rg.metadata, rg.profiles,
                                           self.clusters[c].clusters.index[k])

\* The metadata of two records of different groups, regions and selectors,
\* the first of them of two clusters.
C13_Witness ==
    /\ call.fn = "get_cluster_metadata"
    /\ ret.kind = "table"
    /\ Len(self.clusters) = 2
    /\ Len(self.clusters[1].clusters.rows) = 2
    /\ self.clusters[1].region # self.clusters[2].region
    /\ self.clusters[1].group # self.clusters[2].group
    /\ Len(ret.rows) >= 3

\* Two build_clusters calls that resolve to the same groups with the same
\* arguments of get_clusters.
SameCall(a, b) ==
    /\ a.groups = b.groups
    /\ a.rq.ipm_regions = b.rq.ipm_regions
    /\ a.rq.min_capacity = b.rq.min_capacity
    /\ a.rq.max_clusters = b.rq.max_clusters
    /\ a.rq.max_lcoe = b.rq.max_lcoe
    /\ a.rq.cap_multiplier = b.rq.cap_multiplier

\* C14: get_clusters and get_cluster_profiles never modify the metadata or
\* the profiles of the resource group (the region filter and the capacity
\* multiplier act on a copy), so a call repeated with the same arguments on
\* the same group, after any other calls, returns the same clusters and the
\* same profiles.
C14_GroupDataReadOnly ==
    /\ self.groups = BuilderGroups
    /\ bc.kind = "frame" => call.metadata = BuilderGroups[bc.groups[1]].metadata
    /\ \A i, j \in 1..Len(bc.log) :
          SameCall(bc.log[i], bc.log[j]) => bc.log[i].out = bc.log[j].out

\* The same group was clustered twice with a capacity multiplier and no
\* region filter, and both calls returned clusters and profiles.
C14_Witness ==
    /\ Len(bc.log) = 2
    /\ SameCall(bc.log[1], bc.log[2])
    /\ bc.log[1].rq.cap_multiplier = 2
    /\ bc.log[1].rq.ipm_regions = AnyRegion
    /\ bc.log[2].out.kind = "built"

\* ---------------------------------------------------------- build_row_tree
\* Frame of build_row_tree: its arguments (df, by, max_level, kwargs) and
\* its locals; parent_id[k] = 0 where np.zeros has not been overwritten.
BtCall(df, by, max_level, kwargs) ==
    [kind |-> "frame", df |-> df, by |-> by, arg |-> max_level, kwargs |-> kwargs,
     nrows |-> 0, drows |-> 0, max_level |-> 0, index |-> <<>>, rows |-> <<>>,
     Z |-> <<>>, mask |-> <<>>, level |-> <<>>, parent_id |-> <<>>, drop |-> 0, i |-> 0]

\* Lines 1038-1044: nrows, and max_level capped at nrows.
MaxLevel(max_level, nrows) == IF max_level = None THEN nrows ELSE Min(max_level, nrows)

\* Line 1058: nrows leaves at level nrows, then the merged rows at levels
\* drows, ..., 1.
MutLevelsFromNrows(nrows, drows) ==
    [k \in 1..(nrows + drows) |-> IF k <= nrows THEN nrows ELSE nrows + drows + 2 - k]

Levels(nrows, drows) ==
    [k \in 1..(nrows + drows) |-> IF k <= nrows THEN nrows ELSE nrows + drows + 1 - k]

\* build_row_tree up to the loop (lines 1038-1060).
build_row_tree_begin ==
    /\ pc = "build_row_tree"
    /\ LET df == bt.df
           nrows == Len(df.rows)
           max_level == MaxLevel(bt.arg, nrows)
           drows == nrows - 1
           index == [k \in 1..(nrows + (IF drows > 0 THEN drows ELSE 0)) |->
                        IF k <= nrows THEN _tuple(df.index[k]) ELSE <<>>]
       IN  IF bt.arg # None /\ max_level < 1
           THEN /\ ret' = Error("ValueError", "Max level of tree must be greater than zero")
                /\ pc' = "error"
                /\ UNCHANGED bt
           ELSE IF drows < 1
           THEN /\ ret' = Returned([columns |-> df.columns, index |-> index, rows |-> df.rows])
                /\ pc' = "done"
                /\ bt' = [bt EXCEPT !.nrows = nrows, !.drows = drows,
                                    !.max_level = max_level, !.index = index]
           ELSE \E Z \in WardPrefix(bt.by, drows) :
                /\ bt' = [bt EXCEPT !.nrows = nrows, !.drows = drows,
                                    !.max_level = max_level, !.index = index,
                                    !.rows = df.rows \o [k \in 1..drows |-> NoneRow],
                                    !.Z = Z,
                                    !.mask = [k \in 1..(nrows + drows) |-> TRUE],
                                    !.level = Levels(nrows, drows),
                                    !.parent_id = [k \in 1..(nrows + drows) |-> 0],
                                    !.drop = nrows - max_level,
                                    !.i = 0]
                /\ pc' = "build_row_tree_loop"
                /\ UNCHANGED ret
    /\ UNCHANGED <<call, gc, cr, ct, self, bc>>

\* One iteration of the loop (lines 1061-1067); merge i (0-based) masks its
\* two children when i < drop.
build_row_tree_merge ==
    /\ pc = "build_row_tree_loop"
    /\ bt.i < Len(bt.Z)
    /\ LET link == bt.Z[bt.i + 1]
           n == bt.nrows + bt.drows
           pid == bt.nrows + bt.i + 1
           mask == [k \in 1..n |->
                      IF bt.i < bt.drop /\ k \in {link[1], link[2]} THEN FALSE ELSE bt.mask[k]]
           parent_id == [k \in 1..n |-> IF k \in {link[1], link[2]} THEN pid ELSE bt.parent_id[k]]
       IN  IF ~(NeededKeys(bt.kwargs) \subseteq (DOMAIN bt.rows[link[1]] \cap DOMAIN bt.rows[link[2]]))
           THEN /\ ret' = Error("KeyError", "missing key")
                /\ pc' = "error"
                /\ bt' = [bt EXCEPT !.mask = mask, !.parent_id = parent_id]
           ELSE /\ bt' = [bt EXCEPT
                            !.mask = mask,
                            !.parent_id = parent_id,
                            !.rows[pid] = merge_row_pair(bt.rows[link[1]], bt.rows[link[2]], bt.kwargs),
                            !.index[pid] = MergedIndex(bt.index, link),
                            !.i = bt.i + 1]
                /\ UNCHANGED <<pc, ret>>
    /\ UNCHANGED <<call, gc, cr, ct, self, bc>>

\* np.searchsorted(old_ids, p): the number of kept positions before p.
NewId(mask, p) == Cardinality({k \in 1..Len(mask) : mask[k] /\ k < p})

\* Lines 1074-1075: parent ids in the new numbering, the last one nan.
NewParentIds(mask, parent_id) ==
    LET kept == Masked(parent_id, mask)
    IN  [k \in 1..Len(kept) |-> IF k = Len(kept) THEN NaN ELSE NewId(mask, kept[k])]

\* Lines 1077-1080: the levels of the kept rows, those above max_level
\* lowered to it (searchsorted on the reversed, ascending levels).
BumpedLevels(level, mask, max_level, nrows) ==
    LET lv == Masked(level, mask)
        stop == Len(lv) - Cardinality({k \in 1..Len(lv) : lv[k] <= max_level})
    IN  IF max_level < nrows
        THEN [k \in 1..Len(lv) |-> IF k <= stop THEN max_level ELSE lv[k]]
        ELSE lv

\* After the loop (lines 1068-1083): the kept rows with id, parent_id, level.
build_row_tree_end ==
    /\ pc = "build_row_tree_loop"
    /\ bt.i = Len(bt.Z)
    /\ LET live == Masked(bt.rows, bt.mask)
           keys == FrameKeys(live)
           InTree(x) == x \in keys
           parents == NewParentIds(bt.mask, bt.parent_id)
           level == BumpedLevels(bt.level, bt.mask, bt.max_level, bt.nrows)
       IN  ret' = Returned([columns |-> SelectSeq(bt.df.columns, InTree)
                                        \o <<"id", "parent_id", "level">>,
                            index |-> Masked(bt.index, bt.mask),
                            rows |-> [k \in 1..Len(live) |->
                                        ("id" :> (k - 1)) @@ ("parent_id" :> parents[k])
                                        @@ ("level" :> level[k]) @@ live[k]]])
    /\ pc' = "done"
    /\ UNCHANGED <<call, gc, cr, ct, self, bc, bt>>

\* build_row_tree called on tables of up to MaxRows rows, with the lcoe
\* column as observations, as in the doctest.
InitRowTree ==
    /\ pc = "build_row_tree"
    /\ \E n \in 1..MaxRows, style \in {"scalar", "tuple"}, kw \in FlatRules :
       \E rows \in [1..n -> RowValues], max_level \in {None} \cup (0..(n + 1)) :
          LET df == [columns |-> FlatColumns,
                     index |-> [k \in 1..n |-> FlatLabel(style, k)],
                     rows |-> rows]
          IN  /\ call = [fn |-> "build_row_tree", df |-> df, max_level |-> max_level,
                         kwargs |-> kw]
              /\ bt = BtCall(df, Column(df, "lcoe"), max_level, kw)
    /\ gc = NoGc
    /\ cr = NoCr
    /\ ct = NoCt
    /\ ret = NoRet
    /\ self = NoSelf
    /\ bc = NoBc

NextRowTree ==
    \/ build_row_tree_begin
    \/ build_row_tree_merge
    \/ build_row_tree_end

SpecRowTree == InitRowTree /\ [][NextRowTree]_vars

\* ---------------------------------------------- claims about build_row_tree
\* build_row_tree has returned the tree of a table of at least two rows.
TreeBuilt ==
    /\ call.fn = "build_row_tree"
    /\ pc = "done"
    /\ bt.nrows >= 2

\* The positions of the rows of the returned tree that parent_id p names.
RowsWithId(p) == {j \in 1..Len(ret.rows) : ret.rows[j]["id"] = p}

\* C15: in every tree table build_row_tree returns, each row but the root
\* has exactly one parent_id, which is the id of a row of the same table
\* whose level is exactly one less than the row's own level.
C15_ParentOneLevelUp ==
    TreeBuilt =>
        \A k \in 1..Len(ret.rows) :
            ret.rows[k]["parent_id"] # NaN =>
                /\ Cardinality(RowsWithId(ret.rows[k]["parent_id"])) = 1
                /\ \A j \in RowsWithId(ret.rows[k]["parent_id"]) :
                      ret.rows[j]["level"] = ret.rows[k]["level"] - 1

\* The positions of the children of row j of the returned tree.
Children(j) == {k \in 1..Len(ret.rows) : ret.rows[k]["parent_id"] = ret.rows[j]["id"]}

\* C16: without max_level, build_row_tree on n >= 2 rows returns the n
\* leaves and n - 1 merged rows; exactly one row, the last one formed, has no
\* parent_id, and its level is 1; the n leaves all have level n; every other
\* row is the child of exactly one row, every merged row has exactly two
\* children (and a leaf none).  With max_level = m <= n the tree has 2m - 1
\* rows, exactly m of them at level m.
C16_TreeShape ==
    /\ (TreeBuilt /\ bt.arg = None) =>
          LET n == bt.nrows
              size == Len(ret.rows)
          IN  /\ size = 2 * n - 1
              /\ {k \in 1..size : ret.rows[k]["parent_id"] = NaN} = {size}
              /\ ret.rows[size]["level"] = 1
              /\ ret.index[size] = bt.index[2 * n - 1]
              /\ \A k \in 1..n : /\ ret.index[k] = _tuple(bt.df.index[k])
                                 /\ ret.rows[k]["level"] = n
                                 /\ Children(k) = {}
              /\ \A k \in 1..(size - 1) :
                    Cardinality(RowsWithId(ret.rows[k]["parent_id"])) = 1
              /\ \A j \in (n + 1)..size : Cardinality(Children(j)) = 2
    /\ (TreeBuilt /\ bt.arg # None /\ bt.arg <= bt.nrows) =>
          /\ Len(ret.rows) = 2 * bt.arg - 1
          /\ Cardinality({k \in 1..Len(ret.rows) : ret.rows[k]["level"] = bt.arg}) = bt.arg

\* The full tree of three rows.
C16_Witness ==
    /\ TreeBuilt
    /\ bt.arg = None
    /\ bt.nrows = 3
    /\ Len(ret.rows) = 5

\* ---------------------------------------------- claims about merged values
\* The rows a merge loop holds after f.i merges: the input rows and the
\* rows merged so far, f.index[p] listing the original ids of row p.
Formed(f) == 1..(f.nrows + f.i)

\* The rows of the table first handed to the call that contribute to a
\* cluster with the ids idx.
Contributors(idx) ==
    {k \in 1..Len(call.df.rows) : Range(_tuple(call.df.index[k])) \subseteq Range(idx)}

\* The value of a unique-or-none attribute over the contributors.
CommonValue(key, idx) ==
    LET vals == {call.df.rows[k][key] : k \in Contributors(idx)}
    IN  IF Cardinality(vals) = 1 THEN CHOOSE v \in vals : TRUE ELSE Null

UniquesFollowContributors(f) ==
    \A p \in Formed(f) :
        \A key \in Range(f.kwargs.uniques) \cap DOMAIN f.rows[p] :
            /\ f.rows[p][key] = CommonValue(key, f.index[p])
            /\ \A q \in Formed(f) :
                  (Range(f.index[p]) \subseteq Range(f.index[q]) /\ f.rows[p][key] = Null)
                      => f.rows[q][key] = Null

WeightedMean(key, idx) ==
    LET ks == AscSeq(Contributors(idx))
        total == SumSeq([j \in 1..Len(ks) |-> call.df.rows[ks[j]][WEIGHT]])
        num == RatSum([j \in 1..Len(ks) |->
                          RatMul(call.df.rows[ks[j]][key], <<call.df.rows[ks[j]][WEIGHT], 1>>)])
    IN  Rat(num[1], num[2] * total)

MeansFollowContributors(f) ==
    (f.kwargs.weight = WEIGHT /\ WEIGHT \in Range(f.kwargs.sums)) =>
        \A p \in Formed(f) :
            \A key \in Range(f.kwargs.means) \cap DOMAIN f.rows[p] :
                f.rows[p][key] = WeightedMean(key, f.index[p])

\* C18: when the weight mw is also summed, after any sequence of pairwise
\* merges the mean attribute of every cluster is the mw-weighted mean of
\* that attribute over the original rows it was built from, whatever the
\* order of the merges.
C18_WeightedMeanOfOriginals ==
    /\ pc = "cluster_rows_loop" => MeansFollowContributors(cr)
    /\ pc = "build_row_tree_loop" => MeansFollowContributors(bt)

\* The root of a tree of three rows of different weights and costs.
C18_Witness ==
    /\ pc = "build_row_tree_loop"
    /\ bt.i = 2
    /\ bt.nrows = 3
    /\ bt.kwargs.weight = WEIGHT
    /\ \E j, k \in 1..3 : /\ bt.df.rows[j][WEIGHT] # bt.df.rows[k][WEIGHT]
                          /\ bt.df.rows[j]["lcoe"] # bt.df.rows[k]["lcoe"]
    /\ bt.rows[5]["lcoe"] = WeightedMean("lcoe", bt.index[5])

\* ------------------------------------------- merge_row_pair called directly
\* The rule sets of cluster_rows called directly, a weighted mean whose
\* weight is not summed, and a sum over a key the rows do not carry.
MergeRules ==
    FlatRules \cup { Rules(<<>>, <<"lcoe">>, "mw", <<>>),
                     Rules(<<"area">>, <<>>, "", <<>>) }

\* call.a and call.b are the two mappings handed to merge_row_pair and
\* call.given what they held when the call was made.
InitMerge ==
    /\ pc = "merge_row_pair"
    /\ \E a \in RowValues, b \in RowValues, kw \in MergeRules :
          call = [fn |-> "merge_row_pair", a |-> a, b |-> b, kw |-> kw,
                  given |-> <<a, b>>, pass |-> 1, first |-> NoRet]
    /\ ret = NoRet
    /\ gc = NoGc
    /\ cr = NoCr
    /\ ct = NoCt
    /\ self = NoSelf
    /\ bc = NoBc
    /\ bt = NoBt

\* Lines 858-875: a lookup of a missing key raises, otherwise the new dict
\* is returned; a and b are only read.
merge_row_pair_call ==
    /\ pc = "merge_row_pair"
    /\ IF ~(NeededKeys(call.kw) \subseteq (DOMAIN call.a \cap DOMAIN call.b))
       THEN /\ ret' = Error("KeyError", "missing key")
            /\ pc' = "error"
       ELSE /\ ret' = [kind |-> "dict", row |-> merge_row_pair(call.a, call.b, call.kw)]
            /\ pc' = "done"
    /\ UNCHANGED <<call, gc, cr, ct, self, bc, bt>>

\* The caller merges the same two mappings in the other order.
merge_row_pair_swapped ==
    /\ pc \in {"done", "error"}
    /\ call.fn = "merge_row_pair"
    /\ call.pass = 1
    /\ call' = [call EXCEPT !.a = call.b, !.b = call.a, !.given = <<call.b, call.a>>,
                            !.pass = 2, !.first = ret]
    /\ pc' = "merge_row_pair"
    /\ ret' = NoRet
    /\ UNCHANGED <<gc, cr, ct, self, bc, bt>>

NextMerge ==
    \/ merge_row_pair_call
    \/ merge_row_pair_swapped

SpecMerge == InitMerge /\ [][NextMerge]_vars

\* The plain average of the values of key in a and b.
Average(a, b, key) ==
    Rat(a[key][1] * b[key][2] + b[key][1] * a[key][2], 2 * a[key][2] * b[key][2])

\* C19: merge_row_pair is pure and symmetric: merging b with a returns what
\* merging a with b returned (sums, weighted and unweighted means, uniques,
\* or the same error), neither mapping is modified, the result has exactly
\* the keys the rules name, and with equal weights the weighted mean is the
\* unweighted mean.
C19_MergePureSymmetric ==
    (call.fn = "merge_row_pair" /\ pc \in {"done", "error"}) =>
        /\ call.a = call.given[1]
        /\ call.b = call.given[2]
        /\ call.pass = 2 => ret = call.first
        /\ ret.kind = "dict" =>
              /\ DOMAIN ret.row = RuleKeys(call.kw)
              /\ (call.kw.weight # "" /\ call.a[call.kw.weight] = call.b[call.kw.weight]) =>
                    \A key \in Range(call.kw.means) :
                        ret.row[key] = Average(call.a, call.b, key)

\* Two rows of different weights, costs and regions merged in both orders
\* with a weighted mean.
C19_Witness ==
    /\ call.fn = "merge_row_pair"
    /\ pc = "done"
    /\ call.pass = 2
    /\ call.kw = Rules(<<"mw">>, <<"lcoe">>, "mw", <<"ipm_region">>)
    /\ call.a["mw"] # call.b["mw"]
    /\ call.a["lcoe"] # call.b["lcoe"]
    /\ call.a["ipm_region"] # call.b["ipm_region"]
    /\ ret.kind = "dict"

\* ------------------------------------ claims about get_cluster_profiles
\* ResourceGroup.get_cluster_profiles has returned an array.
ProfilesReturned ==
    /\ call.fn = "ResourceGroup.get_cluster_profiles"
    /\ pc = "done"
    /\ ret.kind = "array"

\* The weight of resource x in the group's metadata.
MwOf(x) == self.metadata.rows[Loc(self.metadata.index, x)][WEIGHT]

\* sum(mw_i * p_i) / sum(mw_i) at hour h over the resources cids, taken in
\* ascending order of id.
ProfileMean(cids, h) ==
    LET xs == AscSeq(Range(cids))
        total == SumSeq([j \in 1..Len(xs) |-> MwOf(xs[j])])
        num == RatSum([j \in 1..Len(xs) |-> RatMul(self.profiles[xs[j]][h], <<MwOf(xs[j]), 1>>)])
    IN  Rat(num[1], num[2] * total)

\* C20: get_cluster_profiles returns one row per id group, in the order
\* given; the row of a group of one id is that resource's profile, and each
\* hourly value of a group of several ids is sum(mw_i * p_i) / sum(mw_i)
\* over its resources, whatever their order in the group, hence between the
\* smallest and the largest value of its resources at that hour and within
\* [0, 1].
C20_ProfilesAreWeightedMeans ==
    ProfilesReturned =>
        /\ Len(ret.rows) = Len(call.ids)
        /\ \A i \in 1..Len(call.ids) :
              LET cids == call.ids[i]
              IN  IF Len(cids) = 1
                  THEN ret.rows[i] = self.profiles[cids[1]]
                  ELSE /\ Len(ret.rows[i]) = Hours(self.profiles)
                       /\ \A h \in 1..Hours(self.profiles) :
                             /\ ret.rows[i][h] = ProfileMean(cids, h)
                             /\ \E x \in Range(cids) : RatLeq(self.profiles[x][h], ret.rows[i][h])
                             /\ \E x \in Range(cids) : RatLeq(ret.rows[i][h], self.profiles[x][h])
                             /\ RatLeq(<<0, 1>>, ret.rows[i][h])
                             /\ RatLeq(ret.rows[i][h], <<1, 1>>)

\* A group of one id followed by a group of two resources of different
\* weights, given in descending order of id.
C20_Witness ==
    /\ ProfilesReturned
    /\ Len(call.ids) = 2
    /\ Len(call.ids[1]) = 1
    /\ Len(call.ids[2]) = 2
    /\ call.ids[2][1] > call.ids[2][2]
    /\ MwOf(call.ids[2][1]) # MwOf(call.ids[2][2])

\* -------------------------------------------------------------------- Table
\* A Table is [path, df, format, loads]: path is "" for None, df is NoFrame
\* for None or [kind |-> "frame", columns, index, rows, named], named telling
\* whether every column label is a string; loads counts the reads of the
\* file (pd.read_csv / ParquetDataset.read) made so far.
NoPath == ""

NoFrame == [kind |-> "none"]

Frame(t) == [kind |-> "frame", columns |-> t.columns, index |-> t.index,
             rows |-> t.rows, named |-> TRUE]

\* The dataset of the doctest (lines 144 and 166), as the file holds it.
Disk ==
    [columns |-> <<"id", "x">>, index |-> <<0, 1>>,
     rows |-> <<[id |-> 1, x |-> 10], [id |-> 2, x |-> 20]>>]

\* The columns argument of read: None, or a list of column names.
AllColumns == [given |-> FALSE]

Columns(names) == [given |-> TRUE, names |-> names]

ColumnArgs == {AllColumns, Columns(<<"id">>), Columns(<<"x", "id">>)}

\* The cache argument of read: None, True or False.
CacheArgs == {"None", "True", "False"}

\* df[columns] if columns is not None else df (lines 239 and 249).
Projected(df, columns) == IF columns.given THEN Frame(Project(df, columns.names)) ELSE df

\* Lines 240-241: cache defaults to columns is None.
MutCacheDefaultOn(columns, cache) == cache # "False"

CacheOn(columns, cache) == cache = "True" \/ (cache = "None" /\ ~columns.given)

\* Lines 242-246: the frame read from the file, all of it when caching.
MutReadRequested(columns, cache) == Projected(Frame(Disk), columns)

ReadFile(columns, cache) ==
    IF CacheOn(columns, cache) THEN Frame(Disk) ELSE Projected(Frame(Disk), columns)

\* Table.__init__ (lines 190-210) is entered with arguments path and df.
InitTable ==
    /\ pc = "Table.__init__"
    /\ \E path \in {NoPath, "data.csv"},
          df \in {NoFrame, Frame(Disk), [Frame(Disk) EXCEPT !.named = FALSE]} :
          call = [fn |-> "__init__", path |-> path, df |-> df, n |-> 0]
    /\ self = NoSelf
    /\ ret = NoRet
    /\ gc = NoGc
    /\ cr = NoCr
    /\ ct = NoCt
    /\ bc = NoBc
    /\ bt = NoBt

Table__init__ ==
    /\ pc = "Table.__init__"
    /\ IF call.df # NoFrame /\ ~call.df.named
       THEN /\ ret' = Error("ValueError", "Dataframe columns are not all strings")
            /\ pc' = "error"
            /\ UNCHANGED self
       ELSE IF call.path = NoPath /\ call.df = NoFrame
       THEN /\ ret' = Error("ValueError", "Mising either path to tabular data or a pandas DataFrame")
            /\ pc' = "error"
            /\ UNCHANGED self
       ELSE /\ self' = [kind |-> "Table", path |-> call.path, df |-> call.df,
                        format |-> IF call.path # NoPath THEN "csv" ELSE "None",
                        loads |-> 0]
            /\ ret' = NoRet
            /\ pc' = "idle"
    /\ UNCHANGED <<call, gc, cr, ct, bc, bt>>

\* Table.read (lines 238-249).
read ==
    /\ pc = "idle"
    /\ self.kind = "Table"
    /\ call.n < MaxCalls
    /\ \E columns \in ColumnArgs, cache \in CacheArgs :
          /\ call' = [fn |-> "read", columns |-> columns, cache |-> cache,
                      n |-> call.n + 1, prev |-> call.fn]
          /\ IF self.df # NoFrame
             THEN /\ ret' = [kind |-> "frame", df |-> Projected(self.df, columns)]
                  /\ UNCHANGED self
             ELSE IF self.format = "None"
             THEN /\ ret' = Error("UnboundLocalError", "local variable 'df' referenced before assignment")
                  /\ UNCHANGED self
             ELSE \E df \in {ReadFile(columns, cache)} :
                  /\ self' = [self EXCEPT !.loads = @ + 1,
                                          !.df = IF CacheOn(columns, cache) THEN df ELSE @]
                  /\ ret' = [kind |-> "frame", df |-> Projected(df, columns)]
    /\ UNCHANGED <<pc, gc, cr, ct, bc, bt>>

\* Lines 257-258.
MutClearAlways(path) == TRUE

ClearApplies(path) == path # NoPath

\* Table.clear (lines 251-258).
clear ==
    /\ pc = "idle"
    /\ self.kind = "Table"
    /\ call.n < MaxCalls
    /\ call' = [fn |-> "clear", n |-> call.n + 1, prev |-> call.fn]
    /\ self' = [self EXCEPT !.df = IF ClearApplies(self.path) THEN NoFrame ELSE @]
    /\ ret' = NoRet
    /\ UNCHANGED <<pc, gc, cr, ct, bc, bt>>

NextTable ==
    \/ Table__init__
    \/ read
    \/ clear

SpecTable == InitTable /\ [][NextTable]_vars

\* ------------------------------------------------------ claims about Table
\* This step is a call of Table.read.
ReadStep == call'.fn = "read" /\ call'.n = call.n + 1

\* C21: on a Table with a path, a read with caching on (cache=True, or no
\* cache argument and no columns) that finds the cache empty reads the file
\* once and stores the full table, also when columns were requested; a read
\* of columns with no cache argument on an empty cache leaves it empty; and
\* a read that finds the cache populated returns from it, whatever its
\* arguments, without reading the file or changing the cache.
C21_Step ==
    (ReadStep /\ self.path # NoPath) =>
        LET columns == call'.columns
            cache == call'.cache
        IN  IF self.df # NoFrame
            THEN /\ self' = self
                 /\ ret'.df = Projected(self.df, columns)
            ELSE /\ self'.loads = self.loads + 1
                 /\ (cache = "True" \/ (cache = "None" /\ ~columns.given)) =>
                       self'.df = Frame(Disk)
                 /\ (cache = "None" /\ columns.given) => self'.df = NoFrame

C21_CacheFilledOnceServedAfter == [][C21_Step]_vars

\* After clear, a read of one column with cache=True has read the file a
\* second time and stored the full table.
C21_Witness ==
    /\ self.kind = "Table"
    /\ call.fn = "read"
    /\ call.prev = "clear"
    /\ call.columns = Columns(<<"id">>)
    /\ call.cache = "True"
    /\ self.df = Frame(Disk)
    /\ self.loads = 2

Threads == 1..MaxThreads

InitReaders ==
    /\ pc = [t \in Threads |-> "read"]
    /\ \E columns \in [Threads -> ColumnArgs], cache \in [Threads -> CacheArgs] :
          call = [t \in Threads |->
                    [fn |-> "read", columns |-> columns[t], cache |-> cache[t], df |-> NoFrame]]
    /\ ret = [t \in Threads |-> NoRet]
    /\ self = [kind |-> "Table", path |-> "data.csv", df |-> NoFrame, format |-> "csv",
               loads |-> 0]
    /\ gc = NoGc
    /\ cr = NoCr
    /\ ct = NoCt
    /\ bc = NoBc
    /\ bt = NoBt

\* Lines 238-239.
reader_check(t) ==
    /\ pc[t] = "read"
    /\ IF self.df # NoFrame
       THEN /\ ret' = [ret EXCEPT ![t] = [kind |-> "frame",
                                          df |-> Projected(self.df, call[t].columns)]]
            /\ pc' = [pc EXCEPT ![t] = "done"]
       ELSE /\ pc' = [pc EXCEPT ![t] = "load"]
            /\ UNCHANGED ret
    /\ UNCHANGED <<call, self, gc, cr, ct, bc, bt>>

\* Lines 240-246.
reader_load(t) ==
    /\ pc[t] = "load"
    /\ call' = [call EXCEPT ![t].df = ReadFile(call[t].columns, call[t].cache)]
    /\ self' = [self EXCEPT !.loads = @ + 1]
    /\ pc' = [pc EXCEPT ![t] = "store"]
    /\ UNCHANGED <<ret, gc, cr, ct, bc, bt>>

\* Lines 247-249.
reader_store(t) ==
    /\ pc[t] = "store"
    /\ self' = [self EXCEPT !.df = IF CacheOn(call[t].columns, call[t].cache)
                                   THEN call[t].df ELSE @]
    /\ ret' = [ret EXCEPT ![t] = [kind |-> "frame",
                                  df |-> Projected(call[t].df, call[t].columns)]]
    /\ pc' = [pc EXCEPT ![t] = "done"]
    /\ UNCHANGED <<call, gc, cr, ct, bc, bt>>

NextReaders ==
    \/ \E t \in Threads : reader_check(t)
    \/ \E t \in Threads : reader_load(t)
    \/ \E t \in Threads : reader_store(t)

SpecReaders == InitReaders /\ [][NextReaders]_vars

\* C24: when the threads all make a caching read of the same uncached Table
\* with a path, the file is read at most once, the cache is never seen
\* partly set, and once they have returned they have returned the same
\* table.
C24_LoadsSerialized ==
    (\A t \in Threads : CacheOn(call[t].columns, call[t].cache)) =>
        /\ self.loads <= 1
        /\ self.df \in {NoFrame, Frame(Disk)}
        /\ (\A t \in Threads : pc[t] = "done") =>
              \A t, u \in Threads :
                 call[t].columns = call[u].columns => ret[t] = ret[u]

\* --------------------------- cluster_rows and cluster_row_trees, any input
\* Table t without column c.
DropColumn(t, c) ==
    LET Kept(x) == x # c
    IN  [t EXCEPT !.columns = SelectSeq(t.columns, Kept),
                  !.rows = [k \in 1..Len(t.rows) |->
                              [x \in DOMAIN t.rows[k] \ {c} |-> t.rows[k][x]]]]

\* cluster_row_trees called on the tables of InitTree, and on the same
\* tables without one of the columns it requires.
InitTreeArgs ==
    /\ pc = "cluster_row_trees"
    /\ \E ids \in TreeRowSets, lcoe \in TreeLcoes, kb \in TreeRules :
       \E tree \in (IF \E id \in ids : TreeOf[id] = "b" THEN {"tree"} ELSE {"tree", ""}),
          max_rows \in {None} \cup (0..(Cardinality(ids \cap TreeLeaves) + 1)),
          drop \in {"", "parent_id", "level", kb[2], "tree"} :
          LET whole == TreeTable(ids, lcoe)
              df == IF drop = "" \/ (drop = "tree" /\ tree = "") THEN whole
                    ELSE DropColumn(whole, drop)
          IN  /\ call = [fn |-> "cluster_row_trees", df |-> df, by |-> kb[2], tree |-> tree,
                         max_rows |-> max_rows, kwargs |-> kb[1]]
              /\ ct = CtCall(df, kb[2], tree, max_rows, kb[1])
    /\ gc = NoGc
    /\ cr = NoCr
    /\ ret = NoRet
    /\ self = NoSelf
    /\ bc = NoBc
    /\ bt = NoBt

\* Either function is called directly.
SpecArgs == (InitFlat \/ InitTreeArgs) /\ [][NextTree]_vars

\* The columns cluster_row_trees requires that the table lacks.
MissingFields ==
    {key \in {"parent_id", "level", call.by} \cup (IF call.tree # "" THEN {call.tree} ELSE {}) :
        key \notin Range(call.df.columns)}

\* C23: cluster_rows and cluster_row_trees raise ValueError, and return no
\* table, whenever max_rows is given and below 1; cluster_row_trees also
\* raises ValueError whenever by is not among the sums, means and uniques or
\* a required column (parent_id, level, by, tree) is missing, also when
\* max_rows is None or so large that no merge is needed.
C23_ArgumentErrors ==
    /\ (FlatCall /\ pc # "cluster_rows" /\ call.max_rows # None /\ call.max_rows < 1) =>
          pc = "error" /\ ret.kind = "error" /\ ret.exc = "ValueError"
    /\ (TreeCall /\ pc # "cluster_row_trees"
          /\ \/ call.max_rows # None /\ call.max_rows < 1
             \/ ~ValidTreeArgs
             \/ MissingFields # {}) =>
          pc = "error" /\ ret.kind = "error" /\ ret.exc = "ValueError"

\* cluster_row_trees was called without max_rows on a table without the
\* parent_id column, and has raised.
C23_Witness ==
    /\ TreeCall
    /\ call.max_rows = None
    /\ ValidTreeArgs
    /\ MissingFields = {"parent_id"}
    /\ pc = "error"
    /\ ret.kind = "error"

\* ------------------------------- claims about the loop of cluster_row_trees
\* The loop of cluster_row_trees is about to run one more iteration.
TreeIterates == pc = "tree_loop" /\ ct.drows > 0 /\ ParentIds(ct.df) # {}

\* Positions of the live rows of the working table.
LiveRows(df) == {k \in 1..Len(df.rows) : df.rows[k]._mask}

\* The parents both of whose children are live.
CompleteParents(df) == {p \in ParentIds(df) : Cardinality(ChildrenOf(df, p)) = 2}

\* The step merges the children of parent p into p's row.
MergesPair(p) ==
    LET df == ct.df
        kids == AscSeq(ChildrenOf(df, p))
        P == Loc(df.index, p)
    IN  /\ pc' = "tree_loop"
        /\ ct'.drows = ct.drows - 1
        /\ LiveRows(ct'.df) = (LiveRows(df) \ ChildrenOf(df, p)) \cup {P}
        /\ ct'.df.rows[P]._ids = df.rows[kids[1]]._ids \o df.rows[kids[2]]._ids
        /\ ct'.df.rows[P]._id = p
        /\ \A k \in 1..Len(df.rows) \ (ChildrenOf(df, p) \cup {P}) : ct'.df.rows[k] = df.rows[k]

\* The step promotes the live child of parent p to p's place.
PromotesChild(p) ==
    LET df == ct.df
        C == CHOOSE k \in ChildrenOf(df, p) : TRUE
        P == Loc(df.index, p)
    IN  /\ pc' = "tree_loop"
        /\ ct'.drows = ct.drows
        /\ Cardinality(ChildrenOf(df, p)) = 1
        /\ LiveRows(ct'.df) = LiveRows(df)
        /\ Cardinality(LiveRows(ct'.df)) = Cardinality(LiveRows(df))
        /\ ct'.df.rows[C]._id = p
        /\ ct'.df.rows[C].parent_id = df.rows[P].parent_id
        /\ ct'.df.rows[C].level = df.rows[P].level
        /\ \A c \in DOMAIN df.rows[C] \ {"_id", "parent_id", "level"} :
              ct'.df.rows[C][c] = df.rows[C][c]
        /\ \A k \in 1..Len(df.rows) \ {C} : ct'.df.rows[k] = df.rows[k]

C25_Step ==
    TreeIterates =>
        IF CompleteParents(ct.df) # {}
        THEN \E p \in CompleteParents(ct.df) :
                /\ \A q \in CompleteParents(ct.df) :
                      RatLeq(Distance(ct.df, ct.by, p), Distance(ct.df, ct.by, q))
                /\ MergesPair(p)
        ELSE \E p \in ParentIds(ct.df) :
                /\ \A q \in ParentIds(ct.df) :
                      ct.df.rows[Loc(ct.df.index, q)].level <= ct.df.rows[Loc(ct.df.index, p)].level
                /\ PromotesChild(p)

\* C25: every iteration of the loop of cluster_row_trees merges a complete
\* pair of least distance if some parent has both children live; otherwise
\* it promotes the live child of the parent with the largest level, which
\* takes that parent's id, parent_id and level, keeps its attributes and
\* _ids, and leaves the number of live rows unchanged.
C25_MergeFirstThenPromote == [][C25_Step]_vars

\* A promotion of a row has been followed by a merge, in a table that held
\* two complete pairs at different distances.
C25_Witness ==
    /\ TreeCall
    /\ pc = "tree_loop"
    /\ ct.columns = <<"_id", "parent_id", "level">>
    /\ ct.drows < ct.nrows - ct.max_rows
    /\ \E k \in LiveRows(ct.df) : Len(ct.df.rows[k]._ids) = 2 /\ ct.df.rows[k]._id = 5
    /\ {1, 3, 6, 7} \subseteq Range(call.df.index)
    /\ call.df.rows[Loc(call.df.index, 6)].lcoe # call.df.rows[Loc(call.df.index, 7)].lcoe

\* The tree (of the table handed in) that base row id belongs to.
TreeOfId(id) == call.df.rows[Loc(call.df.index, id)].tree

\* The trees the base rows gathered in a live row come from.
TreesOfRow(row) == {TreeOfId(row._ids[j]) : j \in 1..Len(row._ids)}

\* cluster_row_trees has handed its live rows to cluster_rows.
FlatInvoked == TreeCall /\ cr # NoCr

\* C26: cluster_row_trees calls cluster_rows only once its loop has ended
\* with no live row having a parent (one live row left of every tree) and
\* more live rows than max_rows; until then no row gathers base rows of two
\* trees; and a run whose loop reaches max_rows never calls cluster_rows.
C26_FlatOnlyAcrossTrees ==
    /\ FlatInvoked =>
          /\ pc \notin {"cluster_row_trees", "tree_loop"}
          /\ ParentIds(ct.df) = {}
          /\ Cardinality(LiveRows(ct.df)) > ct.max_rows
          /\ \A k \in LiveRows(ct.df) : \A j \in LiveRows(ct.df) \ {k} :
                TreesOfRow(ct.df.rows[k]) \cap TreesOfRow(ct.df.rows[j]) = {}
    /\ (TreeCall /\ pc = "tree_loop") =>
          \A k \in LiveRows(ct.df) : Cardinality(TreesOfRow(ct.df.rows[k])) = 1
    /\ (TreeCall /\ ct.columns # <<>> /\ ct.nrows > ct.max_rows /\ ct.drows = 0) =>
          cr = NoCr

\* Both trees were reduced to their head rows by merges, and cluster_rows
\* has merged the two heads and returned.
C26_Witness ==
    /\ FlatInvoked
    /\ pc = "tree_return"
    /\ ct.max_rows = 1
    /\ Cardinality(LiveRows(ct.df)) = 2
    /\ \E k \in LiveRows(ct.df) : Len(ct.df.rows[k]._ids) = 3
    /\ Len(ret.rows) = 1

\* ------------------------------------- claims about the columns returned
\* The input columns of cluster_rows that its merge rules name, in the
\* input's order.
RuleColumnsOf(df, kw) ==
    LET InRules(x) == x \in Range(MergeColumns(kw))
    IN  SelectSeq(df.columns, InRules)

\* cluster_rows has returned after merging at least once.
FlatMerged == FlatCall /\ pc = "done" /\ ret.kind = "table" /\ cr.drows >= 1 /\ cr.i >= 1

\* C27 (as claimed): whenever cluster_rows has merged at least once, the
\* columns of its result are exactly the input columns named in the merge
\* rules, in the input's order, whether or not input rows survive unmerged.
C27_OnlyRuleColumns ==
    FlatMerged => ret.columns = RuleColumnsOf(cr.df, cr.kwargs)

\* What does hold: the result has only rule columns when no input row
\* survives, and every input column when one does.
C27_ColumnsBySurvivors ==
    FlatMerged =>
        ret.columns = IF \E k \in 1..cr.nrows : cr.mask[k]
                      THEN cr.df.columns
                      ELSE RuleColumnsOf(cr.df, cr.kwargs)

\* cluster_row_trees has ended a call whose arguments pass its checks.
TreeEnded ==
    /\ TreeCall
    /\ Terminated
    /\ ValidTreeArgs
    /\ MissingFields = {}
    /\ (call.max_rows = None \/ call.max_rows >= 1)

\* Some iteration of the loop took the promotion branch (line 1215).
Promoted == ct.columns = <<"_id", "parent_id", "level">>

\* C28 (as claimed): on every path (early return, merges only, promotions,
\* cluster_rows at the end) cluster_row_trees returns a table whose columns
\* are exactly sums + means + uniques, and selecting them never fails.
C28_RuleColumnsOnEveryPath ==
    TreeEnded =>
        /\ pc = "done"
        /\ ret.kind = "table"
        /\ ret.columns = MergeColumns(call.kwargs)

\* What does hold: the runs without a promotion return the rule columns.
C28_RuleColumnsUnlessPromoted ==
    (TreeEnded /\ ~Promoted) =>
        /\ pc = "done"
        /\ ret.kind = "table"
        /\ ret.columns = MergeColumns(call.kwargs)

\* Every run with a promotion ends in the KeyError of line 1226.
C28_PromotedRunsFail ==
    (TreeEnded /\ Promoted) => pc = "error" /\ ret.exc = "KeyError"

\* --------------------------- termination of the loop of cluster_row_trees
\* Sum of the levels of the live rows.
RECURSIVE LevelSum(_, _)
LevelSum(df, S) ==
    IF S = {} THEN 0
    ELSE LET k == CHOOSE k \in S : TRUE
         IN  df.rows[k].level + LevelSum(df, S \ {k})

\* One step from inside the loop: an iteration merges (one merge fewer is
\* required) or promotes one live row to a strictly smaller level; the loop
\* is left as soon as no merge is required or no live row has a parent.
C29_Step ==
    (TreeCall /\ pc = "tree_loop") =>
        IF TreeIterates
        THEN /\ pc' = "tree_loop"
             /\ \/ /\ ct'.drows = ct.drows - 1
                   /\ Cardinality(LiveRows(ct'.df)) = Cardinality(LiveRows(ct.df)) - 1
                \/ /\ ct'.drows = ct.drows
                   /\ LiveRows(ct'.df) = LiveRows(ct.df)
                   /\ \E k \in LiveRows(ct.df) :
                         /\ ct'.df.rows[k].level < ct.df.rows[k].level
                         /\ \A j \in LiveRows(ct.df) \ {k} :
                               ct'.df.rows[j].level = ct.df.rows[j].level
                   /\ LevelSum(ct'.df, LiveRows(ct'.df)) < LevelSum(ct.df, LiveRows(ct.df))
        ELSE pc' # "tree_loop"

\* Inside the loop the merges still required are the live rows above
\* max_rows, and the call was made with 1 <= max_rows < number of base rows.
C29_Required ==
    (TreeCall /\ pc = "tree_loop") =>
        /\ call.max_rows # None
        /\ 1 <= call.max_rows
        /\ call.max_rows < Len(BaseIds(call.df, call.tree))
        /\ ct.drows = Cardinality(LiveRows(ct.df)) - call.max_rows
        /\ ct.drows >= 0

\* C29: on tables of well-formed trees holding the parent row of every
\* non-root row, with 1 <= max_rows < number of base rows, the loop of
\* cluster_row_trees terminates: every iteration merges, leaving one merge
\* fewer to do, or promotes one live row to a strictly smaller level, and
\* the loop is left as soon as no merge is required or no live row has a
\* parent.
C29_LoopTerminates ==
    /\ [][C29_Step]_vars
    /\ []C29_Required
    /\ (TreeCall /\ pc = "tree_loop") ~> (pc # "tree_loop")

\* The loop was left with no merge left to do, after a promotion and merges.
C29_Witness ==
    /\ TreeCall
    /\ pc \notin {"cluster_row_trees", "tree_loop"}
    /\ Promoted
    /\ ct.drows = 0
    /\ ct.nrows - ct.max_rows >= 2

\* ------------------------------ what the live rows of cluster_row_trees hold
\* The parent, in the table handed in, of the row with this id.
ParentOfId(id) == call.df.rows[Loc(call.df.index, id)].parent_id

\* Row id is node N of the table handed in, or lies below it.
RECURSIVE AtOrBelow(_, _)
AtOrBelow(id, N) ==
    \/ id = N
    \/ /\ ParentOfId(id) # NaN
       /\ AtOrBelow(ParentOfId(id), N)

\* Merges performed so far by the loop.
MergesDone == (ct.nrows - ct.max_rows) - ct.drows

\* C30: at every point of the loop of cluster_row_trees each live row
\* carries the id of one node N of the tree, its _ids are ids of base rows
\* that are N or descendants of N, the _ids of distinct live rows are
\* disjoint, and the live rows number the base rows minus the merges done.
C30_LiveRowsCoverSubtrees ==
    (TreeCall /\ pc = "tree_loop") =>
        /\ \A k \in LiveRows(ct.df) :
              /\ ct.df.rows[k]._id \in Range(call.df.index)
              /\ \A j \in LiveRows(ct.df) \ {k} :
                    /\ ct.df.rows[j]._id # ct.df.rows[k]._id
                    /\ Range(ct.df.rows[j]._ids) \cap Range(ct.df.rows[k]._ids) = {}
              /\ \A i \in 1..Len(ct.df.rows[k]._ids) :
                    /\ ct.df.rows[k]._ids[i] \in Range(BaseIds(call.df, call.tree))
                    /\ AtOrBelow(ct.df.rows[k]._ids[i], ct.df.rows[k]._id)
                    /\ \A h \in 1..Len(ct.df.rows[k]._ids) \ {i} :
                          ct.df.rows[k]._ids[h] # ct.df.rows[k]._ids[i]
        /\ MergesDone >= 0
        /\ Cardinality(LiveRows(ct.df)) = Len(BaseIds(call.df, call.tree)) - MergesDone

\* A merged row holding two base rows is live next to a promoted row, which
\* holds one base row under the id of a node above it.
C30_Witness ==
    /\ TreeCall
    /\ pc = "tree_loop"
    /\ MergesDone = 1
    /\ \E k \in LiveRows(ct.df) : Len(ct.df.rows[k]._ids) = 2
    /\ \E k \in LiveRows(ct.df) :
          /\ Len(ct.df.rows[k]._ids) = 1
          /\ ct.df.rows[k]._ids[1] # ct.df.rows[k]._id
====
